---- MODULE Spec2Model ----
(***************************************************************************)
(* Model of the grizzly streaming engine (pkg/engine/engine.go): eight     *)
(* workers connected by seven buffered channels, with the five window      *)
(* worker variants, the aggregate worker and the three filter workers.     *)
(*                                                                         *)
(* Rows are identified by their position in the input (the Go code passes  *)
(* *data.IngressRow pointers); a window is a sequence of row ids.          *)
(* Timestamps are whole seconds counted from Go's zero time.Time, which    *)
(* is the origin time.Truncate rounds to.                                  *)
(***************************************************************************)
EXTENDS Integers, Sequences, FiniteSets, TLC

\* ---------------------------------------------------------------- bounds
MaxRows == 3
MaxTime == 3
MaxTicks == 2
MaxSeconds == 2
MaxBurst == 2

\* ------------------------------------------------------ program constants
ChannelCapacity == 1000

\* ------------------------------------------------- input and plan domains
GroupValues == {"a", "b"}
ActionValues == {"in", "mid", "out", "io"}
IntervalAmounts == {1, 2}
ExpireAfterSeconds == {1}

\* The goroutine-local `var hi time.Time` / `var hi int` start at zero.
ZeroTime == 0

\* Window node properties as written by the compiler
\* (SetWindowNodeProperties) and read back by Window.Init, plus whether the
\* query has its three optional `where` clauses.  IntervalField is
\* property 4, which SetWindowNodeProperties never sets.  expireAfter is
\* the duration of `expire after`, which the grammar parses but
\* ExitSessionClose never stores in the plan.
Plans ==
  { p \in [ WindowType : {"session", "slice"},
            IntervalType : {"time", "distance", "N/A"},
            SequenceField : {"", "t"},
            GroupFieldNames : {<<>>, <<"g">>},
            SessionIncludeClosingRow : BOOLEAN,
            IntervalRows : IntervalAmounts \cup {0},
            TickerSeconds : IntervalAmounts \cup {0},
            IntervalField : {""},
            expireAfter : ExpireAfterSeconds \cup {0},
            hasWhere : BOOLEAN,
            IngressFilter : {"", "p.x > 0"},
            OutputFieldNames : {<<"s", "n">>} ] :
      /\ p.hasWhere <=> (p.IngressFilter = "p.x > 0")
      /\ (p.WindowType = "session") <=> (p.IntervalType = "N/A")
      /\ (p.WindowType = "session") => (p.SequenceField = "")
      /\ (p.WindowType = "session") <=> (p.expireAfter # 0)
      /\ (p.WindowType = "session") => ~p.hasWhere
      \* a query with `where` clauses is run with `slice N rows` windows
      /\ p.hasWhere => (p.IntervalType = "distance" /\ p.SequenceField = "")
      /\ (p.WindowType = "slice") => ~p.SessionIncludeClosingRow
      /\ (p.IntervalType = "time") <=> (p.TickerSeconds # 0)
      \* `slice 1 rows` is run without `based on`, `slice 1 seconds` not at all
      /\ p.TickerSeconds # 1
      /\ (p.SequenceField = "t") => (p.IntervalRows # 1)
      /\ (p.IntervalType = "distance") <=> (p.IntervalRows # 0) }

VARIABLES
  plan,                                \* the plan the engine was started on
  alive,                               \* FALSE once a goroutine has panicked
  input,                               \* the rows read so far; input[i] is row i
  ingressToIngressFilterChannel,
  ingressFilterToWindowChannel,
  windowToAggregateChannel,
  aggregateToAggregateFilterChannel,
  aggregateFilterToProjectChannel,
  projectToProjectFilterChannel,
  projectFilterToEgressChannel,
  window,                              \* the ungrouped workers' local `window`
  wg,                                  \* WindowGroup.windows: group key -> window
  hi,                                  \* the replay workers' local `hi`
  appenders,                           \* LiveTime: appender goroutines started
  holding,                             \* LiveTime: rows received, not yet appended
  windowMutex,                         \* LiveTime: who has locked windowMutex
  tickPc,                              \* LiveTime: where the tick handler stands
  keys,                                \* LiveTime: keys still to close in this tick
  ticks,                               \* LiveTime: ticks handled so far
  functors,                            \* Aggregate.functors: reducer state
  aggregateRunning,                    \* FALSE once AggregateWorker left its loop
  ingressFilterSent,                   \* history: row ids sent by IngressFilterWorker
  windowReceived,                      \* history: row ids the window stage received
  windowSent,                          \* history: windows sent to the aggregate stage
  aggregateSent,                       \* history: rows sent by AggregateWorker
  aggregateFilterSent,                 \* history: rows sent by AggregateFilterWorker
  projectSent,                         \* history: rows sent by ProjectWorker
  projectFilterSent,                   \* history: rows sent by ProjectFilterWorker
  output,                              \* the records written by EgressWorker
  eof,                                 \* IngressWorker has read io.EOF and returned
  exitAfterSeconds,                    \* the timeout Run was started with
  elapsed,                             \* whole seconds Run has slept
  returned,                            \* Run has returned: the process has ended
  query,                               \* compiler: the query read from stdin
  listener,                            \* compiler: the queryListener of the walk
  pc,                                  \* compiler: the clause the walk stands at
  goFile,                              \* compiler: the filter code file written
  stdout                               \* compiler: the plans written to stdout

channels ==
  << ingressToIngressFilterChannel, ingressFilterToWindowChannel,
     windowToAggregateChannel, aggregateToAggregateFilterChannel,
     aggregateFilterToProjectChannel, projectToProjectFilterChannel,
     projectFilterToEgressChannel >>

windowState ==
  << window, wg, hi, appenders, holding, windowMutex, tickPc, keys, ticks >>

history ==
  << ingressFilterSent, windowReceived, windowSent, aggregateSent, aggregateFilterSent,
     projectSent, projectFilterSent, output >>

runState == << eof, exitAfterSeconds, elapsed, returned >>

compileState == << query, listener, pc, goFile, stdout >>

vars ==
  << plan, alive, input, channels, windowState, functors, aggregateRunning,
     history, runState, compileState >>

liveState == << appenders, holding, windowMutex, tickPc, keys, ticks >>

upstream ==
  << plan, input, ingressToIngressFilterChannel, ingressFilterSent, runState,
     compileState >>

downstream ==
  << aggregateToAggregateFilterChannel, aggregateFilterToProjectChannel,
     projectToProjectFilterChannel, projectFilterToEgressChannel, functors,
     aggregateRunning, aggregateSent, aggregateFilterSent, projectSent,
     projectFilterSent, output >>

\* ------------------------------------------------------------- helpers
\* The workers run until one of them panics or Run returns.
Running == alive /\ ~returned

Grouped == Len(plan.GroupFieldNames) > 0

\* WindowWorker's switch over the window type, the interval type and the
\* presence of a `based on` field.
WindowMode ==
  IF plan.WindowType = "session" THEN "Session"
  ELSE IF plan.IntervalType = "time"
       THEN (IF plan.SequenceField = "" THEN "LiveTime" ELSE "ReplayTime")
       ELSE (IF plan.SequenceField = "" THEN "LiveDistance" ELSE "ReplayDistance")

Range(s) == { s[i] : i \in 1..Len(s) }

\* The rows a run can read.  A field the query never reads is held at one
\* value: g and h unless named by `group by`, t without `based on` or a
\* session, action outside a session, and x (which `where x > 0` tests)
\* without a `where`.
\* The rows of a session are stamped with the first or the last instant,
\* which are further apart than `expire after`.
Rows ==
  [ g : IF "g" \in Range(plan.GroupFieldNames) THEN GroupValues ELSE {"a"},
    h : IF "h" \in Range(plan.GroupFieldNames) THEN GroupValues ELSE {"a"},
    x : IF plan.hasWhere THEN {0, 2} ELSE {2},
    t : IF plan.SequenceField # "" THEN 1..MaxTime
        ELSE IF plan.WindowType = "session" THEN {1, MaxTime} ELSE {1},
    action : IF plan.WindowType = "session" THEN ActionValues ELSE {"mid"} ]

\* Session input arrives in event-time order.
InOrder(row) ==
  (plan.WindowType = "session" /\ input # <<>>) => input[Len(input)].t <= row.t

\* A channel without a capacity.
HasRoom_Unbounded(ch) == TRUE

\* A send on a buffered channel goes through only while len(ch) < cap(ch).
HasRoom(ch) == Len(ch) < ChannelCapacity

\* Ingress.Ingress: the Group struct of a row holds the values of the
\* `group by` fields only, each under its name.
Group(row) == [ name \in Range(plan.GroupFieldNames) |-> row[name] ]

RECURSIVE Concat(_)
Concat(values) ==
  IF values = <<>> THEN "" ELSE Head(values) \o Concat(Tail(values))

\* WindowGroup.GroupKey: the Sprintf("%v") texts of the group values,
\* concatenated without a separator.
GroupKey(id) ==
  Concat([ i \in 1..Len(plan.GroupFieldNames) |->
             Group(input[id])[plan.GroupFieldNames[i]] ])

\* The generated filter functions.  The queries modelled are
\*   [where x > 0] window ... aggregate sum(x) as s, count(x) as n
\*   [where n > 1] append s, n [where s > 1]
\* and, for a session, begin when action == "in" or action == "io",
\* end when action == "out" or action == "io".  A query without a `where`
\* gets GoPassthroughEvalFunction.
\* IngressFilter is the condition of the first `where` as ExitWhereClause
\* stores it: none, `where x > 0`, or `where 4 / x > 1`, whose Go code
\* divides two int64 and panics at run time when the divisor is zero.
EvalIngressFilterPanics(row) ==
  plan.IngressFilter = "4 / p.x > 1" /\ row.x = 0

EvalIngressFilter(row) ==
  CASE plan.IngressFilter = "" -> TRUE
    [] plan.IngressFilter = "p.x > 0" -> row.x > 0
    [] plan.IngressFilter = "4 / p.x > 1" -> (4 \div row.x) > 1
\* A post-aggregate filter that lets every row through.
EvalAggregateFilter_Passthrough(row) == TRUE
EvalAggregateFilter(row) == IF plan.hasWhere THEN row.n > 1 ELSE TRUE
EvalProjectFilter(row) == IF plan.hasWhere THEN row.s > 1 ELSE TRUE
EvalSessionOpenFilter(row) == row.action \in {"in", "io"}
EvalSessionCloseFilter(row) == row.action \in {"out", "io"}

\* `var windowMutex sync.Mutex`: nobody has locked it, or the tick handler
\* has, or the appender goroutine that holds the row `id`.
Unlocked == <<>>
Ticker == << "ticker" >>
Appender(id) == << "appender", id >>

\* CreateWindowGroup: no window is open.
EmptyWindows == [ key \in {} |-> <<>> ]

\* WindowGroup.Append
WgAppend(windows, id) ==
  LET groupKey == GroupKey(id)
  IN IF groupKey \in DOMAIN windows
     THEN [ windows EXCEPT ![groupKey] = Append(@, id) ]
     ELSE (groupKey :> << id >>) @@ windows

\* WindowGroup.Close: the table after delete(wg.windows, groupKey)
WgClose(windows, groupKey) ==
  [ key \in DOMAIN windows \ {groupKey} |-> windows[key] ]

\* WindowGroup.AllGroupKeys ranges over a Go map: any order can come out.
AllGroupKeys(windows) ==
  { order \in [ 1..Cardinality(DOMAIN windows) -> DOMAIN windows ] :
      \A i, j \in DOMAIN order : i # j => order[i] # order[j] }

\* surroundingTimeInterval: hi = t.Truncate(slice).Add(slice)
surroundingTimeInterval(t, slice) ==
  [ lo |-> t - (t % slice), hi |-> t - (t % slice) + slice ]

\* surroundingRowInterval: lo = floor(row / slice) * slice
surroundingRowInterval(row, slice) ==
  [ lo |-> (row \div slice) * slice, hi |-> (row \div slice) * slice + slice ]

\* operator.Timestamp / operator.Rowstamp read the named payload field.
Timestamp(id, timeFieldName) == input[id][timeFieldName]
Rowstamp(id, rowFieldName) == input[id][rowFieldName]

\* Rowstamp calls UpcaseFirstLetter(rowFieldName), which slices s[:1] and
\* panics on the empty string.
RowstampPanics(rowFieldName) == rowFieldName = ""

\* Aggregate.Reset / Aggregate.Update for sum(x), count(x)
ResetFunctors == [ Sum |-> 0, Count |-> 0 ]

RECURSIVE UpdateFunctors(_, _)
UpdateFunctors(f, rows) ==
  IF rows = <<>> THEN f
  ELSE UpdateFunctors([ Sum |-> f.Sum + input[Head(rows)].x,
                        Count |-> f.Count + 1 ], Tail(rows))

\* ------------------------------------------------- the compiler's input
\* The catalog table the query reads `from`: its fields in catalog order.
Table ==
  << [ name |-> "t", type |-> "text", usage |-> "time" ],
     [ name |-> "g", type |-> "text", usage |-> "data" ],
     [ name |-> "x", type |-> "integer64", usage |-> "data" ] >>

\* The atoms of the grammar: NAME, INTEGER, DQ_STRING and SQ_STRING tokens.
Variables == [ rule : {"Variable"}, text : {"t", "g", "x", "s", "nope"} ]

Literals ==
  { [ rule |-> "Integer", text |-> "5" ],
    [ rule |-> "String", text |-> "\"a\"" ],
    [ rule |-> "Timestamp", text |-> "'2026-11-01T00:00:00Z'" ] }

\* expression: left = term op right = term, with a variable or a text
\* literal on the left and a literal on the right.
Equations ==
  [ left : Variables \cup { [ rule |-> "String", text |-> "\"a\"" ] },
    op : {"<"},
    right : Literals ]

\* `begin when g == "a"` and `end when g == "b" exclusive`
SessionOpenDefault ==
  [ left |-> [ rule |-> "Variable", text |-> "g" ], op |-> "==",
    right |-> [ rule |-> "String", text |-> "\"a\"" ] ]

SessionCloseDefault ==
  [ left |-> [ rule |-> "Variable", text |-> "g" ], op |-> "==",
    right |-> [ rule |-> "String", text |-> "\"b\"" ] ]

\* aggregations: `fn(field) as s`, alone or followed by `count(x) as n`.
Aggregations ==
  LET first == [ function : {"sum", "average"},
                 field : {"x", "g", "doesNotExist"},
                 alias : {"s"} ]
      count == [ function |-> "count", field |-> "x", alias |-> "n" ]
  IN { << a >> : a \in first } \cup { << a, count >> : a \in first }

\* projections of the `append` clause
Projections == { << "s" >>, << "s", "n" >>, << "s", "nope" >> }

\* windowClause: `slice 1 rows` and `slice 1 seconds`, each with or without
\* `based on t`, `slide 2 seconds advance every 1 seconds`, and a session.
SliceRows ==
  [ kind |-> "slice", amount |-> "1", unit |-> "rows", sequenceField |-> "" ]

SessionWindow ==
  [ kind |-> "session", amount |-> "1", unit |-> "seconds",
    sequenceField |-> "" ]

Windows ==
  [ kind : {"slice"}, amount : {"1"}, unit : {"rows", "seconds"},
    sequenceField : {"", "t"} ]
  \cup { [ kind |-> "slide", amount |-> "2", unit |-> "seconds",
           sequenceField |-> "" ],
         SessionWindow }

\* groupClause: absent, or `group by` with one or two names.
Groups == { <<>>, << "g" >>, << "g", "x" >>, << "x", "g" >>, << "nope" >> }

\* The alternatives of the grammar rule `aggregate`; count() and reason()
\* take no field.
AggregateFunctions ==
  { "average", "count", "countWithoutAsterisk", "distinctcount", "first",
    "group", "last", "maximum", "mean", "minimum", "sum", "unique",
    "reasonForWindowClose" }

\* The predicate clauses a query can have.  An absent clause is the empty
\* sequence; a `window slice` query has neither session predicate.
Slots == {"ingressWhere", "sessionOpen", "sessionClose", "aggregateWhere",
          "projectWhere"}

\* The query with the equation `e` in the clause `slot` and no other
\* `where`; its window is a session window when `session` says so.
QueryWith(slot, e, session, aggregations, projections) ==
  [ groups |-> <<>>,
    window |-> IF session THEN SessionWindow ELSE SliceRows,
    ingressWhere |-> IF slot = "ingressWhere" THEN << e >> ELSE <<>>,
    sessionOpen |-> IF slot = "sessionOpen" THEN << e >>
                    ELSE IF session THEN << SessionOpenDefault >> ELSE <<>>,
    sessionClose |-> IF slot = "sessionClose" THEN << e >>
                     ELSE IF session THEN << SessionCloseDefault >> ELSE <<>>,
    aggregateWhere |-> IF slot = "aggregateWhere" THEN << e >> ELSE <<>>,
    aggregations |-> aggregations,
    projections |-> projections,
    projectWhere |-> IF slot = "projectWhere" THEN << e >> ELSE <<>> ]

\* Queries the grammar accepts: at most one predicate besides the session
\* window's defaults.
Queries ==
  { QueryWith(slot, e, session, a, p) :
      slot \in Slots, e \in Equations, session \in {TRUE},
      a \in Aggregations, p \in Projections }
  \cup
  { QueryWith(slot, e, FALSE, a, p) :
      slot \in Slots \ {"sessionOpen", "sessionClose"}, e \in Equations,
      a \in Aggregations, p \in Projections }
  \cup
  { QueryWith("none", SessionOpenDefault, session, a, p) :
      session \in BOOLEAN, a \in Aggregations, p \in Projections }

\* Queries without a `where`: every window, with and without `group by`,
\* over one or two aggregations of x drawn from all aggregate functions.
PlanQueries ==
  LET s == [ function : AggregateFunctions, field : {"x"}, alias : {"s"} ]
      n == [ function : AggregateFunctions, field : {"x"}, alias : {"n"} ]
  IN { [ QueryWith("none", SessionOpenDefault, w.kind = "session", a,
                   << "s" >>) EXCEPT !.window = w, !.groups = g ] :
         w \in Windows, g \in Groups,
         a \in { << f >> : f \in s } \cup (s \X n) }

\* ------------------------------------------------- the compiler's state
\* A grizzly.Field nobody has set: no name, the first FieldType and
\* FieldUsage of the schema.
ZeroField == [ name |-> "", type |-> "boolean", usage |-> "data" ]

\* The eight nodes of the plan template
Nodes ==
  { "ingress", "ingressFilter", "window", "aggregate", "aggregateFilter",
    "project", "projectFilter", "egress" }

\* The listener parseQuery starts the walk with: the nodes of the plan
\* template have no fields, no group fields and no properties, no call is
\* collected, no condition is set.
NewListener ==
  [ filterType |-> "",
    calls |-> <<>>,
    groupFields |-> [ node \in Nodes |-> <<>> ],
    properties |-> <<>>,
    ingressNode |-> <<>>,
    ingressFilterNode |-> <<>>,
    windowNode |-> <<>>,
    aggregateNode |-> <<>>,
    aggregateFilterNode |-> <<>>,
    projectNode |-> <<>>,
    projectFilterNode |-> <<>>,
    egressNode |-> <<>>,
    WindowType |-> "",
    VariableCounter |-> 0,
    hasIngressFilter |-> FALSE,
    hasSessionWindow |-> FALSE,
    hasAggregateFilter |-> FALSE,
    hasProjectFilter |-> FALSE,
    IngressFilter |-> "",
    SessionOpen |-> "",
    SessionClose |-> "",
    AggregateFilter |-> "",
    ProjectFilter |-> "",
    ExprStack |-> <<>> ]

\* What the nodes of the plan hold after the walk
PlanOf(l) ==
  [ calls |-> l.calls,
    WindowType |-> l.WindowType,
    groupFields |-> l.groupFields,
    properties |-> l.properties,
    ingress |-> l.ingressNode,
    ingressFilter |-> l.ingressFilterNode,
    window |-> l.windowNode,
    aggregate |-> l.aggregateNode,
    project |-> l.projectNode,
    egress |-> l.egressNode ]

\* GoEval: the body of the eval function of a filter with a condition
GoEval(body) == "pass = " \o body

\* GoPassthroughEvalFunction: the body of one that never blocks a row
GoPassthroughEvalFunction == "return true"

\* The eval functions ExitQueryClause generates for the five filters
evalFunctions(l) ==
  [ Ingress |-> IF l.hasIngressFilter THEN GoEval(l.IngressFilter)
                ELSE GoPassthroughEvalFunction,
    SessionOpen |-> IF l.hasSessionWindow THEN GoEval(l.SessionOpen)
                    ELSE GoPassthroughEvalFunction,
    SessionClose |-> IF l.hasSessionWindow THEN GoEval(l.SessionClose)
                     ELSE GoPassthroughEvalFunction,
    Aggregate |-> IF l.hasAggregateFilter THEN GoEval(l.AggregateFilter)
                  ELSE GoPassthroughEvalFunction,
    Project |-> IF l.hasProjectFilter THEN GoEval(l.ProjectFilter)
                ELSE GoPassthroughEvalFunction ]

\* The conditions and the eval functions GoCodeCreateFile writes into the
\* filter code
CodeOf(l) ==
  [ IngressFilter |-> l.IngressFilter,
    SessionOpen |-> l.SessionOpen,
    SessionClose |-> l.SessionClose,
    AggregateFilter |-> l.AggregateFilter,
    ProjectFilter |-> l.ProjectFilter,
    Functions |-> evalFunctions(l) ]

\* The engine, which does not run while the compiler does
engineState ==
  << plan, alive, input, channels, windowState, functors, aggregateRunning,
     history, runState >>

\* ------------------------------------------------- the compiler's functions
\* The positions of the fields called `name`
Named(fields, name) == { i \in 1..Len(fields) : fields[i].name = name }

Lowest(S) == CHOOSE i \in S : \A j \in S : i <= j

\* catalog.FindField: the loop leaves `field` at the first field called
\* fieldName, or at the last field of the table when there is none; err is
\* nil in both cases.
FindField(fieldName) ==
  IF Named(Table, fieldName) # {}
  THEN Table[Lowest(Named(Table, fieldName))]
  ELSE Table[Len(Table)]

\* A copy that leaves the usage of every field at its zero value.
copyFields_NoUsage(fields) ==
  [ i \in 1..Len(fields) |->
      [ ZeroField EXCEPT !.type = fields[i].type, !.name = fields[i].name ] ]

\* copyFields and copyGroupFields: copyFieldsHelper sets the type, the
\* usage and the name of every new field from the old one.
copyFields(fields) ==
  [ i \in 1..Len(fields) |->
      [ ZeroField EXCEPT !.type = fields[i].type,
                         !.usage = fields[i].usage,
                         !.name = fields[i].name ] ]

\* ExitGroupClause: the g-th group field is set from every field of the
\* ingress node called like the g-th group name in turn, and stays as
\* NewGroupFields made it when there is none.
ExitGroupClause(fields, groupFieldNames) ==
  [ g \in 1..Len(groupFieldNames) |->
      LET same == Named(fields, groupFieldNames[g])
          last == CHOOSE i \in same : \A j \in same : j <= i
      IN IF same = {} THEN ZeroField ELSE fields[last] ]

\* SetWindowNodeProperties: seven properties, of which the fifth is never
\* set.
SetWindowNodeProperties(windowType, intervalType, intervalAmount, intervalUnit, sessionCloseInclusive, sequenceFieldName) ==
  << [ key |-> "window_type", value |-> windowType ],
     [ key |-> "interval_type", value |-> intervalType ],
     [ key |-> "interval_amount", value |-> intervalAmount ],
     [ key |-> "interval_unit", value |-> intervalUnit ],
     [ key |-> "", value |-> "" ],
     [ key |-> "session_close_inclusive", value |-> sessionCloseInclusive ],
     [ key |-> "sequence_field_name", value |-> sequenceFieldName ] >>

\* ExitDuration has a time unit for minutes and seconds only.
ExitDurationPanics(unit) == unit \notin {"minutes", "seconds"}

\* ExitSliceWindow: the interval type follows the unit.
ExitSliceWindow(w) ==
  SetWindowNodeProperties("slice",
                          IF w.unit = "rows" THEN "distance" ELSE "time",
                          w.amount, w.unit, "false", w.sequenceField)

\* addAggregateFunction: the Call for functionName over inputFieldName.
\* outputType is "" where the Go code passes nil.
addAggregateFunction(functionName, inputFieldName, outputType, alias) ==
  LET field == FindField(inputFieldName)
      outputFieldType == IF outputType # "" THEN outputType ELSE field.type
  IN [ function |-> [ name |-> functionName,
                      outputType |-> outputFieldType,
                      outputName |-> alias,
                      inputTypes |-> << field.type >> ],
       inputFields |-> << field >>,
       outputField |-> [ name |-> alias, type |-> outputFieldType,
                         usage |-> "data" ] ]

\* The alternatives of `aggregate` the listener has an Exit function for
AggregateHandlers == {"average", "count", "sum", "first", "last"}

\* EnterAggregation, then ExitAggregateAverage, ExitAggregateCount,
\* ExitAggregateSum, ExitAggregateFirst or ExitAggregateLast
ExitAggregate(aggregation) ==
  CASE aggregation.function = "average" ->
         addAggregateFunction("average", aggregation.field, "float64",
                              aggregation.alias)
    [] aggregation.function = "count" ->
         addAggregateFunction("count", "N/A -- count(*)", "integer64",
                              aggregation.alias)
    [] aggregation.function = "sum" ->
         addAggregateFunction("sum", aggregation.field, "", aggregation.alias)
    [] aggregation.function = "first" ->
         addAggregateFunction("first", aggregation.field, "",
                              aggregation.alias)
    [] aggregation.function = "last" ->
         addAggregateFunction("last", aggregation.field, "", aggregation.alias)

\* A GoExpression that was never pushed: the handler has panicked.
Panic == [ Code |-> "", Kind |-> "panic" ]

\* A lookup that takes every variable from the ingress schema
VariableNode_AlwaysIngress(l) == l.ingressNode

\* ExitVariable's switch over the filter type
VariableNode(l) ==
  CASE l.filterType = "Ingress" -> l.ingressNode
    [] l.filterType = "Aggregate" -> l.aggregateNode
    [] l.filterType = "Project" -> l.projectNode

ExitVariable(l, text) ==
  LET fields == VariableNode(l)
      foundVariable == Named(fields, text) # {}
      isTimeType == fields[Lowest(Named(fields, text))].usage = "time"
  IN IF ~foundVariable THEN Panic
     ELSE [ Code |-> "p." \o text,
            Kind |-> IF isTimeType THEN "Timestamp" ELSE "Variable" ]

\* ExitInteger, ExitString, ExitTimestamp and ExitVariable; `counter` is
\* goCode.VariableCounter when the atom is left.
ExitAtom(l, atom, counter) ==
  CASE atom.rule = "Variable" -> ExitVariable(l, atom.text)
    [] atom.rule = "Integer" -> [ Code |-> atom.text, Kind |-> "Integer" ]
    [] atom.rule = "String" -> [ Code |-> atom.text, Kind |-> "String" ]
    [] atom.rule = "Timestamp" ->
         [ Code |-> "timestamp" \o ToString(counter), Kind |-> "Timestamp" ]

\* How far an atom moves goCode.VariableCounter
Timestamps(atom) == IF atom.rule = "Timestamp" THEN 1 ELSE 0

timeCompare(op, timestamp1, timestamp2) ==
  LET cmp == CASE op = "<" -> " == -1"
               [] op = "<=" -> " <= 0"
               [] op = "==" -> " == 0"
               [] op = "!=" -> " != 0"
               [] op = ">=" -> " >= 0"
               [] op = ">" -> " > 0"
  IN timestamp1 \o ".Compare(" \o timestamp2 \o ")" \o cmp

defaultCompare(op, left, right) == left \o " " \o op \o " " \o right

ExitEquation(op, left, right) ==
  IF left.Kind = "Timestamp" \/ right.Kind = "Timestamp"
  THEN [ Code |-> timeCompare(op, left.Code, right.Code), Kind |-> "Timestamp" ]
  ELSE [ Code |-> defaultCompare(op, left.Code, right.Code), Kind |-> left.Kind ]

\* The walk over one equation: the GoExpression left on the stack, or Panic
\* when ExitVariable has panicked on one of its terms.
Expression(l, e) ==
  LET left == ExitAtom(l, e.left, l.VariableCounter)
      right == ExitAtom(l, e.right, l.VariableCounter + Timestamps(e.left))
  IN IF left = Panic \/ right = Panic THEN Panic
     ELSE ExitEquation(e.op, left, right)

\* The listener after the walk over the terms of e
Walked(l, e) ==
  [ l EXCEPT !.VariableCounter = @ + Timestamps(e.left) + Timestamps(e.right) ]

\* ExitDuration: the GoExpression of `amount unit`
ExitDuration(counter) ==
  [ Code |-> "duration" \o ToString(counter), Kind |-> "Duration" ]

timeAddSub(op, timestamp, duration) ==
  LET method == CASE op = "+" -> "Add" [] op = "-" -> "Sub"
  IN timestamp \o "." \o method \o "(" \o duration \o ")"

\* ExitAddSub: a duration on one side only makes a timestamp; every other
\* pair of operands keeps the kind of the right one.
ExitAddSub(op, left, right) ==
  IF left.Kind # "Duration" /\ right.Kind = "Duration"
  THEN [ Code |-> timeAddSub(op, left.Code, right.Code), Kind |-> "Timestamp" ]
  ELSE IF left.Kind = "Duration" /\ right.Kind # "Duration"
  THEN [ Code |-> timeAddSub(op, right.Code, left.Code), Kind |-> "Timestamp" ]
  ELSE [ Code |-> left.Code \o " " \o op \o " " \o right.Code,
         Kind |-> right.Kind ]

\* push and pop on goCode.ExprStack
push(l, tuple) == [ l EXCEPT !.ExprStack = Append(@, tuple) ]

pop(l) == [ l EXCEPT !.ExprStack = SubSeq(@, 1, Len(@) - 1) ]

top(l) == l.ExprStack[Len(l.ExprStack)]

\* A connection that keeps its operands together in parentheses.
ExitConnection_Grouped(op, left, right) ==
  [ Code |-> << "(" >> \o left.Code
               \o << CASE op = "AND" -> "&&" [] op = "OR" -> "||" >>
               \o right.Code \o << ")" >>,
    Kind |-> right.Kind ]

\* ExitConnection: left.Code + " && " + right.Code, or with " || ".  The
\* code of a condition is held as the sequence of its Go tokens, in which
\* a comparison counts as one.
ExitConnection(op, left, right) ==
  [ Code |-> left.Code
               \o << CASE op = "AND" -> "&&" [] op = "OR" -> "||" >>
               \o right.Code,
    Kind |-> right.Kind ]

\* ExitNegation: "!(" + term.Code + ")"
ExitNegation(term) ==
  [ Code |-> << "!", "(" >> \o term.Code \o << ")" >>, Kind |-> term.Kind ]

\* A handler that takes every `where` for the one before `window`
ExitWhereClause_Ingress(l, code) == [ l EXCEPT !.IngressFilter = code ]

ExitWhereClause(l, code) ==
  CASE l.filterType = "Ingress" -> [ l EXCEPT !.IngressFilter = code ]
    [] l.filterType = "Aggregate" -> [ l EXCEPT !.AggregateFilter = code ]
    [] l.filterType = "Project" -> [ l EXCEPT !.ProjectFilter = code ]

\* EnterAppendClause: one new field per projection, which gets the name and
\* the type of every aggregate filter field of that name in turn, and
\* neither when there is none.
EnterAppendClause(l, allProjections) ==
  [ i \in 1..Len(allProjections) |->
      LET otherFields == l.aggregateFilterNode
          same == Named(otherFields, allProjections[i])
          last == CHOOSE j \in same : \A k \in same : k <= j
      IN IF same = {} THEN ZeroField
         ELSE [ ZeroField EXCEPT !.name = otherFields[last].name,
                                 !.type = otherFields[last].type ] ]

\* strings.ToUpper(s[:1]) + s[1:] slices past the end of an empty string.
UpcaseFirstLetterPanics(s) == s = ""

\* GoFieldMapping panics in UpcaseFirstLetter or on a type it has no case
\* for.
GoFieldMappingPanics(fieldName, fieldType) ==
  \/ UpcaseFirstLetterPanics(fieldName)
  \/ fieldType \notin {"boolean", "float64", "integer64", "text"}

\* FindCatalogFieldType: the type of the node's first field of that name
FindCatalogFieldType(fields, name) == fields[Lowest(Named(fields, name))].type

\* GoTranslate panics when the mapping of one of the node's fields does.
GoTranslatePanics(fields) ==
  \E i \in 1..Len(fields) :
    GoFieldMappingPanics(fields[i].name,
                         FindCatalogFieldType(fields, fields[i].name))

\* ------------------------------------------------- the compiler's walk
\* One action per clause of queryClause, in the order the tree walker
\* leaves them.  A panic in a handler ends the process: pc = "panic".

\* ExitFromClause: the ingress node gets the fields of the catalog table,
\* the ingress filter node and the window node a copy of them.
FromClause ==
  /\ pc = "from"
  /\ listener' = [ listener EXCEPT !.ingressNode = Table,
                                   !.ingressFilterNode = copyFields(Table),
                                   !.windowNode = copyFields(Table),
                                   !.filterType = "Ingress" ]
  /\ pc' = "group"
  /\ UNCHANGED << query, goFile, stdout, engineState >>

\* groupClause, when the query has one: ExitGroupClause sets the group
\* fields of the ingress node.
GroupClause ==
  /\ pc = "group"
  /\ listener' =
       [ listener EXCEPT !.groupFields["ingress"] =
           ExitGroupClause(listener.ingressNode, query.groups) ]
  /\ pc' = "ingressWhere"
  /\ UNCHANGED << query, goFile, stdout, engineState >>

\* The handlers of an optional `where` clause: the walk over its
\* expression, ExitWhereClause and the Exit...WhereClause that sets `has`.
WhereClause(clause, has, next) ==
  IF clause = <<>>
  THEN pc' = next /\ UNCHANGED listener
  ELSE LET tuple == Expression(listener, clause[1])
       IN IF tuple = Panic
          THEN pc' = "panic" /\ UNCHANGED listener
          ELSE /\ pc' = next
               /\ listener' =
                    [ ExitWhereClause(Walked(listener, clause[1]), tuple.Code)
                        EXCEPT ![has] = TRUE ]

IngressWhereClause ==
  /\ pc = "ingressWhere"
  /\ WhereClause(query.ingressWhere, "hasIngressFilter", "window")
  /\ UNCHANGED << query, goFile, stdout, engineState >>

\* windowClause.  A slice window: ExitDistance or ExitDuration, then
\* ExitSliceWindow.  A slide window: ExitDuration twice and no handler of
\* its own.  A session window: EnterSessionWindow, the walks over the two
\* predicates, ExitSessionOpen, ExitSessionClose and ExitDuration.
WindowClause ==
  /\ pc = "window"
  /\ IF query.window.kind # "session"
     THEN LET w == query.window
              durations == CASE w.kind = "slide" -> 2
                             [] w.unit = "rows" -> 0
                             [] OTHER -> 1
          IN IF durations > 0 /\ ExitDurationPanics(w.unit)
             THEN pc' = "panic" /\ UNCHANGED listener
             ELSE /\ pc' = "aggregate"
                  /\ listener' =
                       [ listener EXCEPT
                           !.VariableCounter = @ + durations,
                           !.WindowType =
                             IF w.kind = "slice" THEN "slice" ELSE @,
                           !.properties =
                             IF w.kind = "slice" THEN ExitSliceWindow(w)
                             ELSE @ ]
     ELSE LET open == query.sessionOpen[1]
              close == query.sessionClose[1]
              sessionOpenTuple == Expression(listener, open)
              opened == [ Walked(listener, open) EXCEPT
                            !.hasSessionWindow = TRUE,
                            !.SessionOpen = sessionOpenTuple.Code ]
              sessionCloseTuple == Expression(opened, close)
          IN IF sessionOpenTuple = Panic \/ sessionCloseTuple = Panic
             THEN pc' = "panic" /\ UNCHANGED listener
             ELSE /\ pc' = "aggregate"
                  /\ listener' =
                       [ Walked(opened, close) EXCEPT
                           !.SessionClose = sessionCloseTuple.Code,
                           !.WindowType = "session",
                           !.properties =
                             SetWindowNodeProperties("session", "N/A", "N/A",
                                                     "N/A", "false", ""),
                           !.VariableCounter = @ + 1 ]
  /\ UNCHANGED << query, goFile, stdout, engineState >>

\* aggregateClause: one call per aggregation that has an Exit function,
\* ExitAggregations, which panics unless every aggregation has left a
\* call, and ExitAggregateClause.
AggregateClause ==
  /\ pc = "aggregate"
  /\ LET handled == SelectSeq(query.aggregations,
                              LAMBDA a : a.function \in AggregateHandlers)
         calls == [ i \in 1..Len(handled) |-> ExitAggregate(handled[i]) ]
         fields == [ i \in 1..Len(calls) |-> calls[i].outputField ]
     IN IF Len(query.aggregations) # Len(calls)
        THEN pc' = "panic" /\ UNCHANGED listener
        ELSE /\ pc' = "aggregateWhere"
             /\ listener' = [ listener EXCEPT !.calls = calls,
                                              !.aggregateNode = fields,
                                              !.aggregateFilterNode = fields,
                                              !.filterType = "Aggregate" ]
  /\ UNCHANGED << query, goFile, stdout, engineState >>

AggregateWhereClause ==
  /\ pc = "aggregateWhere"
  /\ WhereClause(query.aggregateWhere, "hasAggregateFilter", "append")
  /\ UNCHANGED << query, goFile, stdout, engineState >>

\* appendClause: EnterAppendClause and ExitAppendClause
AppendClause ==
  /\ pc = "append"
  /\ LET fields == EnterAppendClause(listener, query.projections)
     IN listener' = [ listener EXCEPT !.projectNode = fields,
                                      !.projectFilterNode = fields,
                                      !.filterType = "Project" ]
  /\ pc' = "projectWhere"
  /\ UNCHANGED << query, goFile, stdout, engineState >>

ProjectWhereClause ==
  /\ pc = "projectWhere"
  /\ WhereClause(query.projectWhere, "hasProjectFilter", "to")
  /\ UNCHANGED << query, goFile, stdout, engineState >>

\* EnterToClause
ToClause ==
  /\ pc = "to"
  /\ listener' = [ listener EXCEPT !.egressNode = listener.projectFilterNode ]
  /\ pc' = "query"
  /\ UNCHANGED << query, goFile, stdout, engineState >>

\* ExitQueryClause: the group fields of the ingress node, if it has any,
\* are copied to the seven other nodes; the three translate functions are
\* generated, then the filter code is written to its file.
ExitQueryClause ==
  /\ pc = "query"
  /\ listener' =
       [ listener EXCEPT !.groupFields =
           IF listener.groupFields["ingress"] = <<>> THEN @
           ELSE [ node \in Nodes |->
                    IF node = "ingress" THEN @[node]
                    ELSE copyFields(@["ingress"]) ] ]
  /\ IF \/ GoTranslatePanics(listener.ingressNode)
        \/ GoTranslatePanics(listener.aggregateNode)
        \/ GoTranslatePanics(listener.egressNode)
     THEN pc' = "panic" /\ UNCHANGED goFile
     ELSE pc' = "write" /\ goFile' = << CodeOf(listener) >>
  /\ UNCHANGED << query, stdout, engineState >>

\* Compile after parseQuery has returned: utility.WriteBinary(msg, os.Stdout)
WriteBinary ==
  /\ pc = "write"
  /\ stdout' = Append(stdout, PlanOf(listener))
  /\ pc' = "done"
  /\ UNCHANGED << query, listener, goFile, engineState >>

\* Window.Init reads the seven properties of the window node: At(0) on a
\* node without properties, an interval type it has no case for and a
\* session_close_inclusive that is no boolean all panic.
WindowInitPanics(properties) ==
  \/ properties = <<>>
  \/ properties[2].value \notin {"time", "distance", "N/A"}
  \/ properties[6].value \notin {"true", "false"}

\* strconv.ParseInt and strconv.ParseFloat on the interval amount
ParseAmount(text) == CASE text = "1" -> 1 [] text = "2" -> 2

\* Aggregate.Init: the functor its switch makes for a function name
Functor(name) ==
  CASE name = "average" -> "Averager"
    [] name = "count" -> "Counter"
    [] name = "distinctcount" -> "DistinctCounter"
    [] name = "maximum" -> "Maximizer"
    [] name = "minimum" -> "Minimizer"
    [] name = "group" -> "NoOp"
    [] name = "sum" -> "Summer"
    [] name = "unique" -> "Uniquer"
    [] name = "first" -> "First"
    [] name = "last" -> "Last"
    [] OTHER -> "panic"

\* NewEngine on the plan the compiler has written: Window.Init, then
\* Aggregate.Init.  A panic in either ends the process before Run.
NewEngine ==
  /\ pc = "done"
  /\ stdout # <<>>
  /\ LET root == stdout[1]
         p == root.properties
         made == [ i \in 1..Len(root.calls) |->
                    Functor(root.calls[i].function.name) ]
     IN IF WindowInitPanics(p) \/ "panic" \in Range(made)
        THEN alive' = FALSE /\ UNCHANGED << plan, functors >>
        ELSE /\ alive' = TRUE
             /\ functors' = made
             /\ plan' =
                  [ plan EXCEPT
                      !.WindowType = p[1].value,
                      !.IntervalType = p[2].value,
                      !.IntervalRows = IF p[2].value = "distance"
                                       THEN ParseAmount(p[3].value) ELSE 0,
                      !.TickerSeconds = IF p[2].value = "time"
                                        THEN ParseAmount(p[3].value) ELSE 0,
                      !.IntervalField = p[5].value,
                      !.SessionIncludeClosingRow = (p[6].value = "true"),
                      !.SequenceField = p[7].value,
                      !.GroupFieldNames =
                        [ g \in 1..Len(root.groupFields["window"]) |->
                            root.groupFields["window"][g].name ] ]
  /\ pc' = "engine"
  /\ UNCHANGED << input, channels, windowState, aggregateRunning, history,
                  runState, query, listener, goFile, stdout >>

\* The engine's process: no query is read and no listener exists in it.
NoCompile ==
  /\ query = <<>>
  /\ listener = <<>>
  /\ pc = "done"
  /\ goFile = <<>>
  /\ stdout = <<>>

\* ---------------------------------------------------------------- Init
\* The workers behind IngressWorker before they have taken a row.
InitStages ==
  /\ alive = TRUE
  /\ ingressFilterToWindowChannel = <<>>
  /\ windowToAggregateChannel = <<>>
  /\ aggregateToAggregateFilterChannel = <<>>
  /\ aggregateFilterToProjectChannel = <<>>
  /\ projectToProjectFilterChannel = <<>>
  /\ projectFilterToEgressChannel = <<>>
  /\ window = <<>>
  /\ wg = EmptyWindows
  /\ hi = ZeroTime
  /\ appenders = IF WindowMode = "LiveTime" THEN 1 ELSE 0
  /\ holding = {}
  /\ windowMutex = Unlocked
  /\ tickPc = "select"
  /\ keys = <<>>
  /\ ticks = 0
  /\ functors = ResetFunctors
  /\ aggregateRunning = TRUE
  /\ ingressFilterSent = <<>>
  /\ windowReceived = <<>>
  /\ windowSent = <<>>
  /\ aggregateSent = <<>>
  /\ aggregateFilterSent = <<>>
  /\ projectSent = <<>>
  /\ projectFilterSent = <<>>
  /\ output = <<>>
  /\ eof = FALSE
  /\ elapsed = 0
  /\ returned = FALSE

\* The engine as NewEngine leaves it: nothing read, every channel empty.
InitEngine ==
  /\ input = <<>>
  /\ ingressToIngressFilterChannel = <<>>
  /\ InitStages
  /\ NoCompile

Init == plan \in Plans /\ exitAfterSeconds = MaxSeconds /\ InitEngine

\* ------------------------------------------------------------- Ingress
\* IngressWorker on an input of at most `limit` rows
IngressReadFrom(rows, limit) ==
  /\ Running
  /\ ~eof
  /\ Len(input) < limit
  /\ HasRoom(ingressToIngressFilterChannel)
  /\ \E row \in rows :
       /\ InOrder(row)
       /\ input' = Append(input, row)
       /\ ingressToIngressFilterChannel' =
            Append(ingressToIngressFilterChannel, Len(input) + 1)
  /\ UNCHANGED << plan, alive, ingressFilterToWindowChannel,
                  windowToAggregateChannel, aggregateToAggregateFilterChannel,
                  aggregateFilterToProjectChannel, projectToProjectFilterChannel,
                  projectFilterToEgressChannel, windowState, functors,
                  aggregateRunning, history, runState, compileState >>

IngressRead(limit) == IngressReadFrom(Rows, limit)

IngressWorker == IngressRead(MaxRows)

\* csvReader.Read returns io.EOF: IngressWorker leaves its loop.
IngressEOF ==
  /\ Running
  /\ ~eof
  /\ eof' = TRUE
  /\ UNCHANGED << plan, alive, input, channels, windowState, functors,
                  aggregateRunning, history, exitAfterSeconds, elapsed, returned,
                  compileState >>

\* The types of the ingress node's fields g, h, x, t, action
IngressFieldTypes == << "text", "text", "integer64", "text", "text" >>

\* Records of the input that do not parse: one whose x is not a number
\* and one with a field too many.
MalformedRecords ==
  { << "a", "a", "abc", "1", "mid" >>,
    << "a", "a", "2", "1", "mid", "extra" >> }

\* strconv.ParseInt(value, 10, 64) returns an error.
ParseIntFails(value) == value \notin {"0", "2"}

\* IngressWorker panics on the record: csvReader.Read returns
\* ErrFieldCount for a record longer than the first one, Ingress indexes
\* OutputFieldTypes past its end when already the first one is too long,
\* and stringToType panics on the error of ParseInt.
IngressPanics(record) ==
  \/ Len(record) > Len(IngressFieldTypes)
  \/ \E i \in 1..Len(IngressFieldTypes) :
       IngressFieldTypes[i] = "integer64" /\ ParseIntFails(record[i])

\* IngressWorker reads a record that does not parse.
IngressMalformed ==
  /\ Running
  /\ ~eof
  /\ Len(input) < MaxRows
  /\ \E record \in MalformedRecords : alive' = ~IngressPanics(record)
  /\ UNCHANGED << plan, input, channels, windowState, functors,
                  aggregateRunning, history, runState, compileState >>

IngressFilterWorker ==
  /\ Running
  /\ ingressToIngressFilterChannel # <<>>
  /\ LET ingressRow == Head(ingressToIngressFilterChannel)
         panics == EvalIngressFilterPanics(input[ingressRow])
         pass == ~panics /\ EvalIngressFilter(input[ingressRow])
     IN /\ pass => HasRoom(ingressFilterToWindowChannel)
        /\ alive' = ~panics
        /\ ingressToIngressFilterChannel' = Tail(ingressToIngressFilterChannel)
        /\ ingressFilterToWindowChannel' =
             IF pass THEN Append(ingressFilterToWindowChannel, ingressRow)
             ELSE ingressFilterToWindowChannel
        /\ ingressFilterSent' =
             IF pass THEN Append(ingressFilterSent, ingressRow)
             ELSE ingressFilterSent
  /\ UNCHANGED << plan, input, windowToAggregateChannel, windowState,
                  windowReceived, windowSent, downstream, runState,
                  compileState >>

\* ------------------------------------------------------- window workers
\* What every window worker does with a row it takes from the channel.
Receive(ingressRow) ==
  /\ ingressFilterToWindowChannel' = Tail(ingressFilterToWindowChannel)
  /\ windowReceived' = Append(windowReceived, ingressRow)

\* A send that puts the windows at the head of the channel.
Emit_Lifo(windows) ==
  /\ Len(windowToAggregateChannel) + Len(windows) <= ChannelCapacity
  /\ windowToAggregateChannel' = windows \o windowToAggregateChannel
  /\ windowSent' = windowSent \o windows

\* e.windowToAggregateChannel <- window, for each window of `windows`
Emit(windows) ==
  /\ Len(windowToAggregateChannel) + Len(windows) <= ChannelCapacity
  /\ windowToAggregateChannel' = windowToAggregateChannel \o windows
  /\ windowSent' = windowSent \o windows

\* An inner loop that runs once too often: i <= maxRows.
WindowIsFull_OneMore(rows) == Len(rows) = plan.IntervalRows + 1

\* LiveDistanceWindowWorker's inner loop ends after maxRows receives.
WindowIsFull(rows) == Len(rows) = plan.IntervalRows

LiveDistanceWindowWorker ==
  /\ Running
  /\ WindowMode = "LiveDistance"
  /\ ingressFilterToWindowChannel # <<>>
  /\ LET ingressRow == Head(ingressFilterToWindowChannel)
         appended == Append(window, ingressRow)
     IN /\ Receive(ingressRow)
        /\ IF WindowIsFull(appended)
           THEN /\ Emit(<< appended >>)
                /\ window' = <<>>
           ELSE /\ Emit(<<>>)
                /\ window' = appended
  /\ UNCHANGED << upstream, alive, wg, hi, liveState, downstream >>

SessionWindowWorker ==
  /\ Running
  /\ WindowMode = "Session"
  /\ ingressFilterToWindowChannel # <<>>
  /\ LET ingressRow == Head(ingressFilterToWindowChannel)
         row == input[ingressRow]
         key == GroupKey(ingressRow)
         isOpen == IF Grouped THEN key \in DOMAIN wg ELSE Len(window) > 0
         keepOpen == ~EvalSessionCloseFilter(row)
         \* the ungrouped branch empties `window` before it sends it
         closing == IF Grouped THEN wg[key] ELSE <<>>
         emitted == IF plan.SessionIncludeClosingRow
                    THEN Append(closing, ingressRow) ELSE closing
         windowAfterClose == IF isOpen THEN emitted ELSE window
         wgAfterClose == IF isOpen THEN WgClose(wg, key) ELSE wg
     IN /\ Receive(ingressRow)
        /\ IF isOpen /\ keepOpen
           THEN /\ Emit(<<>>)
                /\ IF Grouped
                   THEN wg' = WgAppend(wg, ingressRow) /\ window' = window
                   ELSE window' = Append(window, ingressRow) /\ wg' = wg
           ELSE /\ Emit(IF isOpen THEN << emitted >> ELSE <<>>)
                /\ IF Grouped
                   THEN /\ window' = window
                        /\ wg' = IF EvalSessionOpenFilter(row)
                                 THEN WgAppend(wgAfterClose, ingressRow)
                                 ELSE wgAfterClose
                   ELSE /\ wg' = wg
                        /\ window' = IF EvalSessionOpenFilter(row)
                                     THEN << ingressRow >>
                                     ELSE windowAfterClose
  /\ UNCHANGED << upstream, alive, hi, liveState, downstream >>

ReplayTimeWindowWorker ==
  /\ Running
  /\ WindowMode = "ReplayTime"
  /\ ingressFilterToWindowChannel # <<>>
  /\ LET ingressRow == Head(ingressFilterToWindowChannel)
         chunkDuration == plan.TickerSeconds
         t == Timestamp(ingressRow, plan.SequenceField)
     IN /\ Receive(ingressRow)
        /\ IF hi < t
           THEN /\ hi' = surroundingTimeInterval(t, chunkDuration).hi
                /\ IF Grouped
                   THEN /\ \E order \in AllGroupKeys(wg) :
                             Emit([ i \in DOMAIN order |-> wg[order[i]] ])
                        /\ wg' = WgAppend(EmptyWindows, ingressRow)
                        /\ window' = window
                   ELSE /\ Emit(IF Len(window) > 0 THEN << window >> ELSE <<>>)
                        /\ window' = << ingressRow >>
                        /\ wg' = wg
           ELSE /\ hi' = hi
                /\ Emit(<<>>)
                /\ IF Grouped
                   THEN wg' = WgAppend(wg, ingressRow) /\ window' = window
                   ELSE window' = Append(window, ingressRow) /\ wg' = wg
  /\ UNCHANGED << upstream, alive, liveState, downstream >>

ReplayDistanceWindowWorker ==
  /\ Running
  /\ WindowMode = "ReplayDistance"
  /\ ingressFilterToWindowChannel # <<>>
  /\ LET ingressRow == Head(ingressFilterToWindowChannel)
         chunkDistance == plan.IntervalRows
         \* the ungrouped branch reads IntervalField, the grouped one
         \* SequenceField
         rowFieldName == IF Grouped THEN plan.SequenceField
                         ELSE plan.IntervalField
     IN /\ Receive(ingressRow)
        /\ IF RowstampPanics(rowFieldName)
           THEN /\ alive' = FALSE
                /\ Emit(<<>>)
                /\ UNCHANGED << window, wg, hi >>
           ELSE LET r == Rowstamp(ingressRow, rowFieldName)
                IN /\ alive' = alive
                   /\ IF hi < r
                      THEN /\ hi' = surroundingRowInterval(r, chunkDistance).hi
                           /\ IF Grouped
                              THEN /\ \E order \in AllGroupKeys(wg) :
                                        Emit([ i \in DOMAIN order |-> wg[order[i]] ])
                                   /\ wg' = WgAppend(EmptyWindows, ingressRow)
                                   /\ window' = window
                              ELSE /\ Emit(IF Len(window) > 0
                                           THEN << window >> ELSE <<>>)
                                   /\ window' = << ingressRow >>
                                   /\ wg' = wg
                      ELSE /\ hi' = hi
                           /\ Emit(<<>>)
                           /\ IF Grouped
                              THEN wg' = WgAppend(wg, ingressRow) /\ window' = window
                              ELSE window' = Append(window, ingressRow) /\ wg' = wg
  /\ UNCHANGED << upstream, liveState, downstream >>

\* LiveTimeWindowWorker starts one more appender goroutine at the top of
\* every pass of its outer loop, that is, once at the start and once after
\* every tick.  An appender takes a row from the channel ...
LiveTimeAppenderReceive ==
  /\ Running
  /\ WindowMode = "LiveTime"
  /\ Cardinality(holding) < appenders
  /\ ingressFilterToWindowChannel # <<>>
  /\ Receive(Head(ingressFilterToWindowChannel))
  /\ holding' = holding \cup { Head(ingressFilterToWindowChannel) }
  /\ UNCHANGED << upstream, alive, window, wg, hi, appenders, windowMutex,
                  tickPc, keys, ticks, windowToAggregateChannel, windowSent,
                  downstream >>

\* ... and appends it to the window under the mutex.
LiveTimeAppenderAppend ==
  /\ Running
  /\ WindowMode = "LiveTime"
  /\ \E ingressRow \in holding :
       /\ holding' = holding \ { ingressRow }
       /\ IF Grouped
          THEN wg' = WgAppend(wg, ingressRow) /\ window' = window
          ELSE window' = Append(window, ingressRow) /\ wg' = wg
  /\ UNCHANGED << upstream, alive, hi, appenders, windowMutex, tickPc, keys,
                  ticks, ingressFilterToWindowChannel, windowReceived,
                  windowToAggregateChannel, windowSent, downstream >>

\* case <-ticker.C, first step: without grouping the window is sent as it
\* is; with grouping the keys are listed under the mutex.
LiveTimeTick ==
  /\ Running
  /\ WindowMode = "LiveTime"
  /\ tickPc = "select"
  /\ ticks < MaxTicks
  /\ ticks' = ticks + 1
  /\ tickPc' = "ticked"
  /\ IF Grouped
     THEN /\ keys' \in AllGroupKeys(wg)
          /\ Emit(<<>>)
     ELSE /\ keys' = keys
          /\ Emit(<< window >>)
  /\ UNCHANGED << upstream, alive, window, wg, hi, appenders, holding,
                  windowMutex, ingressFilterToWindowChannel, windowReceived,
                  downstream >>

\* case <-ticker.C, the rest: without grouping the window is replaced by an
\* empty one under the mutex; with grouping each listed key is closed under
\* the mutex and its window sent.  At the end the outer loop starts the next
\* appender.
LiveTimeRotate ==
  /\ Running
  /\ WindowMode = "LiveTime"
  /\ tickPc = "ticked"
  /\ IF Grouped /\ keys # <<>>
     THEN /\ keys' = Tail(keys)
          /\ wg' = WgClose(wg, Head(keys))
          /\ Emit(IF Head(keys) \in DOMAIN wg THEN << wg[Head(keys)] >> ELSE <<>>)
          /\ UNCHANGED << window, tickPc, appenders >>
     ELSE /\ window' = IF Grouped THEN window ELSE <<>>
          /\ tickPc' = "select"
          /\ appenders' = appenders + 1
          /\ Emit(<<>>)
          /\ UNCHANGED << wg, keys >>
  /\ UNCHANGED << upstream, alive, hi, holding, windowMutex, ticks,
                  ingressFilterToWindowChannel, windowReceived, downstream >>

\* LiveTimeWindowWorker statement by statement: Lock and Unlock are steps
\* of their own.  An appender that has a row locks the mutex ...
LiveTimeAppenderLock ==
  /\ Running
  /\ WindowMode = "LiveTime"
  /\ windowMutex = Unlocked
  /\ \E ingressRow \in holding : windowMutex' = Appender(ingressRow)
  /\ UNCHANGED << upstream, alive, window, wg, hi, appenders, holding, tickPc,
                  keys, ticks, ingressFilterToWindowChannel, windowReceived,
                  windowToAggregateChannel, windowSent, downstream >>

\* A mutex that stays with its holder.
Unlock_Held(holder) == holder

\* windowMutex.Unlock()
Unlock(holder) == Unlocked

\* ... appends the row and unlocks.
LiveTimeAppenderUnlock ==
  /\ Running
  /\ WindowMode = "LiveTime"
  /\ \E ingressRow \in holding :
       /\ windowMutex = Appender(ingressRow)
       /\ holding' = holding \ { ingressRow }
       /\ IF Grouped
          THEN wg' = WgAppend(wg, ingressRow) /\ window' = window
          ELSE window' = Append(window, ingressRow) /\ wg' = wg
  /\ windowMutex' = Unlock(windowMutex)
  /\ UNCHANGED << upstream, alive, hi, appenders, tickPc, keys, ticks,
                  ingressFilterToWindowChannel, windowReceived,
                  windowToAggregateChannel, windowSent, downstream >>

\* case <-ticker.C: without grouping the next statement is the send, with
\* grouping the Lock before AllGroupKeys.
LiveTimeSelect ==
  /\ Running
  /\ WindowMode = "LiveTime"
  /\ tickPc = "select"
  /\ ticks < MaxTicks
  /\ ticks' = ticks + 1
  /\ tickPc' = IF Grouped THEN "lock keys" ELSE "send"
  /\ UNCHANGED << upstream, alive, window, wg, hi, appenders, holding,
                  windowMutex, keys, ingressFilterToWindowChannel,
                  windowReceived, windowToAggregateChannel, windowSent,
                  downstream >>

\* windowMutex.Lock() in the tick handler
LiveTimeLock ==
  /\ Running
  /\ WindowMode = "LiveTime"
  /\ tickPc \in {"lock keys", "lock close", "lock reset"}
  /\ windowMutex = Unlocked
  /\ windowMutex' = Ticker
  /\ tickPc' = CASE tickPc = "lock keys" -> "keys"
                 [] tickPc = "lock close" -> "close"
                 [] tickPc = "lock reset" -> "reset"
  /\ UNCHANGED << upstream, alive, window, wg, hi, appenders, holding, keys,
                  ticks, ingressFilterToWindowChannel, windowReceived,
                  windowToAggregateChannel, windowSent, downstream >>

\* The statement of the tick handler after the keys `rest` are left: the
\* Lock before the next Close, or the select of the next pass of the outer
\* loop.
AfterKey(rest) == IF rest = <<>> THEN "select" ELSE "lock close"

\* The statements between Lock and Unlock in the tick handler, and the
\* Unlock: keys := wg.AllGroupKeys(), or window, ok := wg.Close(key), or
\* window = Window{}.  A pass of the outer loop that ends here starts the
\* next appender.
LiveTimeUnlock ==
  /\ Running
  /\ WindowMode = "LiveTime"
  /\ tickPc \in {"keys", "close", "reset"}
  /\ windowMutex' = Unlock(windowMutex)
  /\ CASE tickPc = "keys" ->
            /\ keys' \in AllGroupKeys(wg)
            /\ tickPc' = AfterKey(keys')
            /\ UNCHANGED << window, wg >>
       [] tickPc = "close" ->
            LET key == Head(keys)
                ok == key \in DOMAIN wg
            IN /\ keys' = Tail(keys)
               /\ window' = IF ok THEN wg[key] ELSE window
               /\ wg' = WgClose(wg, key)
               /\ tickPc' = IF ok THEN "send" ELSE AfterKey(Tail(keys))
       [] tickPc = "reset" ->
            /\ window' = <<>>
            /\ tickPc' = "select"
            /\ UNCHANGED << wg, keys >>
  /\ appenders' = IF tickPc' = "select" THEN appenders + 1 ELSE appenders
  /\ UNCHANGED << upstream, alive, hi, holding, ticks,
                  ingressFilterToWindowChannel, windowReceived,
                  windowToAggregateChannel, windowSent, downstream >>

\* e.windowToAggregateChannel <- window, which blocks while the channel is
\* full.
LiveTimeSend ==
  /\ Running
  /\ WindowMode = "LiveTime"
  /\ tickPc = "send"
  /\ Emit(<< window >>)
  /\ tickPc' = IF Grouped THEN AfterKey(keys) ELSE "lock reset"
  /\ appenders' = IF tickPc' = "select" THEN appenders + 1 ELSE appenders
  /\ UNCHANGED << upstream, alive, window, wg, hi, holding, windowMutex, keys,
                  ticks, ingressFilterToWindowChannel, windowReceived,
                  downstream >>

\* ------------------------------------------------------------ Aggregate
\* The AggregateRow built from a window: Aggregate.Value fills s and n,
\* SetGroup copies the group of window[0].
AggregateRowOf(f, rows) ==
  [ group |-> Group(input[rows[1]]), s |-> f.Sum, n |-> f.Count ]

\* An aggregate worker that leaves out e.aggregate.Reset().
FoldWindow_NoReset(rows) == UpdateFunctors(functors, rows)

\* e.aggregate.Reset(), then e.aggregate.Update for every row of the window
FoldWindow(rows) == UpdateFunctors(ResetFunctors, rows)

AggregateWorker ==
  /\ Running
  /\ aggregateRunning
  /\ windowToAggregateChannel # <<>>
  /\ LET rows == Head(windowToAggregateChannel)
         f == FoldWindow(rows)
     IN /\ windowToAggregateChannel' = Tail(windowToAggregateChannel)
        /\ functors' = f
        /\ IF Len(rows) = 0
           THEN /\ aggregateRunning' = FALSE
                /\ UNCHANGED << aggregateToAggregateFilterChannel, aggregateSent >>
           ELSE /\ HasRoom(aggregateToAggregateFilterChannel)
                /\ aggregateRunning' = aggregateRunning
                /\ aggregateToAggregateFilterChannel' =
                     Append(aggregateToAggregateFilterChannel, AggregateRowOf(f, rows))
                /\ aggregateSent' = Append(aggregateSent, AggregateRowOf(f, rows))
  /\ UNCHANGED << upstream, alive, ingressFilterToWindowChannel, windowState,
                  aggregateFilterToProjectChannel, projectToProjectFilterChannel,
                  projectFilterToEgressChannel, windowReceived,
                  windowSent, aggregateFilterSent, projectSent, projectFilterSent,
                  output >>

AggregateFilterWorker ==
  /\ Running
  /\ aggregateToAggregateFilterChannel # <<>>
  /\ LET aggregateRow == Head(aggregateToAggregateFilterChannel)
         pass == EvalAggregateFilter(aggregateRow)
     IN /\ pass => HasRoom(aggregateFilterToProjectChannel)
        /\ aggregateToAggregateFilterChannel' = Tail(aggregateToAggregateFilterChannel)
        /\ aggregateFilterToProjectChannel' =
             IF pass THEN Append(aggregateFilterToProjectChannel, aggregateRow)
             ELSE aggregateFilterToProjectChannel
        /\ aggregateFilterSent' =
             IF pass THEN Append(aggregateFilterSent, aggregateRow)
             ELSE aggregateFilterSent
  /\ UNCHANGED << upstream, alive, ingressFilterToWindowChannel,
                  windowToAggregateChannel, windowState, functors,
                  aggregateRunning, projectToProjectFilterChannel,
                  projectFilterToEgressChannel, windowReceived,
                  windowSent, aggregateSent, projectSent, projectFilterSent, output >>

\* Project.Project: the payload fields listed by `append`, and the group
Project(aggregateRow) ==
  [ name \in Range(plan.OutputFieldNames) \cup {"group"} |-> aggregateRow[name] ]

ProjectWorker ==
  /\ Running
  /\ aggregateFilterToProjectChannel # <<>>
  /\ HasRoom(projectToProjectFilterChannel)
  /\ LET egressRow == Project(Head(aggregateFilterToProjectChannel))
     IN /\ aggregateFilterToProjectChannel' = Tail(aggregateFilterToProjectChannel)
        /\ projectToProjectFilterChannel' =
             Append(projectToProjectFilterChannel, egressRow)
        /\ projectSent' = Append(projectSent, egressRow)
  /\ UNCHANGED << upstream, alive, ingressFilterToWindowChannel,
                  windowToAggregateChannel, windowState, functors,
                  aggregateRunning, aggregateToAggregateFilterChannel,
                  projectFilterToEgressChannel, windowReceived,
                  windowSent, aggregateSent, aggregateFilterSent, projectFilterSent,
                  output >>

ProjectFilterWorker ==
  /\ Running
  /\ projectToProjectFilterChannel # <<>>
  /\ LET egressRow == Head(projectToProjectFilterChannel)
         pass == EvalProjectFilter(egressRow)
     IN /\ pass => HasRoom(projectFilterToEgressChannel)
        /\ projectToProjectFilterChannel' = Tail(projectToProjectFilterChannel)
        /\ projectFilterToEgressChannel' =
             IF pass THEN Append(projectFilterToEgressChannel, egressRow)
             ELSE projectFilterToEgressChannel
        /\ projectFilterSent' =
             IF pass THEN Append(projectFilterSent, egressRow)
             ELSE projectFilterSent
  /\ UNCHANGED << upstream, alive, ingressFilterToWindowChannel,
                  windowToAggregateChannel, windowState, functors,
                  aggregateRunning, aggregateToAggregateFilterChannel,
                  aggregateFilterToProjectChannel, windowReceived,
                  windowSent, aggregateSent, aggregateFilterSent, projectSent, output >>

\* A record that lists the payload fields and the group fields last to first.
Record_Reversed(egressRow) ==
  LET m == Len(plan.OutputFieldNames)
      n == Len(plan.GroupFieldNames)
  IN [ i \in 1..m |-> egressRow[plan.OutputFieldNames[m + 1 - i]] ]
     \o [ i \in 1..n |-> egressRow.group[plan.GroupFieldNames[n + 1 - i]] ]

\* The CSV record of an egress row: the values of e.egress.OutputFieldNames,
\* then the values of e.egress.GroupFieldNames.
Record(egressRow) ==
  [ i \in 1..Len(plan.OutputFieldNames) |-> egressRow[plan.OutputFieldNames[i]] ]
  \o [ i \in 1..Len(plan.GroupFieldNames) |-> egressRow.group[plan.GroupFieldNames[i]] ]

EgressWorker ==
  /\ Running
  /\ projectFilterToEgressChannel # <<>>
  /\ projectFilterToEgressChannel' = Tail(projectFilterToEgressChannel)
  /\ output' = Append(output, Record(Head(projectFilterToEgressChannel)))
  /\ UNCHANGED << upstream, alive, ingressFilterToWindowChannel,
                  windowToAggregateChannel, windowState, functors,
                  aggregateRunning, aggregateToAggregateFilterChannel,
                  aggregateFilterToProjectChannel, projectToProjectFilterChannel,
                  windowReceived, windowSent, aggregateSent,
                  aggregateFilterSent, projectSent, projectFilterSent >>

\* ----------------------------------------------------------------- Next
Next ==
  \/ IngressWorker
  \/ IngressFilterWorker
  \/ SessionWindowWorker
  \/ LiveDistanceWindowWorker
  \/ LiveTimeAppenderReceive
  \/ LiveTimeAppenderAppend
  \/ LiveTimeTick
  \/ LiveTimeRotate
  \/ ReplayTimeWindowWorker
  \/ ReplayDistanceWindowWorker
  \/ AggregateWorker
  \/ AggregateFilterWorker
  \/ ProjectWorker
  \/ ProjectFilterWorker
  \/ EgressWorker

Spec == Init /\ [][Next]_vars

\* ------------------------------------------------------ Run and its timeout
\* time.Sleep(exitAfterSeconds): one more second has passed.
Sleep ==
  /\ Running
  /\ elapsed < exitAfterSeconds
  /\ elapsed' = elapsed + 1
  /\ UNCHANGED << plan, alive, input, channels, windowState, functors,
                  aggregateRunning, history, eof, exitAfterSeconds, returned,
                  compileState >>

\* A Run that also returns as soon as the input has ended.
RunReturns_OnEOF ==
  /\ Running
  /\ (elapsed = exitAfterSeconds \/ eof)
  /\ returned' = TRUE
  /\ UNCHANGED << plan, alive, input, channels, windowState, functors,
                  aggregateRunning, history, eof, exitAfterSeconds, elapsed,
                  compileState >>

\* The sleep is over: Run returns to main, which returns.
RunReturns ==
  /\ Running
  /\ elapsed = exitAfterSeconds
  /\ returned' = TRUE
  /\ UNCHANGED << plan, alive, input, channels, windowState, functors,
                  aggregateRunning, history, eof, exitAfterSeconds, elapsed,
                  compileState >>

\* Replay of a finite input: `window slice 2 seconds based on t`, read to
\* its end.
ReplayPlans == { p \in Plans : p.IntervalType = "time" /\ p.SequenceField # "" }

\* The query without `group by` and `where`.
RunPlans == { p \in ReplayPlans : p.GroupFieldNames = <<>> /\ ~p.hasWhere }

ReplayWorkers ==
  \/ IngressWorker
  \/ IngressEOF
  \/ IngressFilterWorker
  \/ ReplayTimeWindowWorker
  \/ AggregateWorker
  \/ AggregateFilterWorker
  \/ ProjectWorker
  \/ ProjectFilterWorker
  \/ EgressWorker

\* The workers while Run sleeps on a timeout that has not expired.  Every
\* goroutine that can take a step is scheduled in the end.
InitDrain == plan \in RunPlans /\ exitAfterSeconds = MaxSeconds /\ InitEngine

SpecDrain == InitDrain /\ [][ReplayWorkers]_vars /\ WF_vars(ReplayWorkers)

\* The workers and the timeout.  The input may end or go on; the clock
\* goes on.
InitRun == plan \in RunPlans /\ exitAfterSeconds \in 0..MaxSeconds /\ InitEngine

NextRun == ReplayWorkers \/ Sleep \/ RunReturns

SpecRun == InitRun /\ [][NextRun]_vars /\ WF_vars(Sleep) /\ WF_vars(RunReturns)

\* ------------------------------------------------- the aggregate goroutine
\* The modes whose window worker sends a window whatever it holds: a tick
\* of LiveTime mode, a closing row of Session mode.
ConsumePlans ==
  { p \in Plans : /\ p.SequenceField = "" /\ ~p.hasWhere
                  /\ (p.IntervalType = "time" \/ p.WindowType = "session") }

InitConsume == plan \in ConsumePlans /\ exitAfterSeconds = MaxSeconds /\ InitEngine

NextConsume ==
  \/ IngressWorker
  \/ IngressFilterWorker
  \/ SessionWindowWorker
  \/ LiveTimeAppenderReceive
  \/ LiveTimeAppenderAppend
  \/ LiveTimeTick
  \/ LiveTimeRotate
  \/ AggregateWorker
  \/ AggregateFilterWorker
  \/ ProjectWorker
  \/ ProjectFilterWorker
  \/ EgressWorker

\* Run sleeps on; the AggregateWorker goroutine is scheduled whenever it
\* can take a step.
SpecConsume == InitConsume /\ [][NextConsume]_vars /\ WF_vars(AggregateWorker)

\* ------------------------------------------------------------ backpressure
\* A burst of input longer than a channel.  The run starts where
\* IngressWorker has read and sent ChannelCapacity rows before any other
\* goroutine was scheduled, and reads up to MaxBurst rows more.
BurstPlans ==
  { p \in Plans : /\ p.IntervalType = "distance" /\ p.IntervalRows = 2
                  /\ p.SequenceField = "" /\ p.GroupFieldNames = <<>>
                  /\ ~p.hasWhere }

InitBurst ==
  /\ plan \in BurstPlans
  /\ exitAfterSeconds = MaxSeconds
  /\ input \in [ 1..ChannelCapacity -> Rows ]
  /\ ingressToIngressFilterChannel = [ i \in 1..ChannelCapacity |-> i ]
  /\ InitStages
  /\ NoCompile

IngressBurst == IngressRead(ChannelCapacity + MaxBurst)

NextBurst == IngressBurst \/ IngressFilterWorker

SpecBurst == InitBurst /\ [][NextBurst]_vars

\* -------------------------------------------------------- the group keys
\* `group by g, h window slice 2 seconds based on t`
KeyPlans ==
  { [ WindowType |-> "slice", IntervalType |-> "time", SequenceField |-> "t",
      GroupFieldNames |-> << "g", "h" >>, SessionIncludeClosingRow |-> FALSE,
      IntervalRows |-> 0, TickerSeconds |-> 2, IntervalField |-> "",
      expireAfter |-> 0, hasWhere |-> FALSE, IngressFilter |-> "",
      OutputFieldNames |-> << "s", "n" >> ] }

\* Rows whose group values are texts of one and of two letters, in the
\* first and in the last bucket
KeyedRows ==
  [ g : {"a", "ab"}, h : {"bc", "c"}, x : {2}, t : {1, MaxTime},
    action : {"mid"} ]

IngressKeyed == IngressReadFrom(KeyedRows, MaxRows)

InitKey == plan \in KeyPlans /\ exitAfterSeconds = MaxSeconds /\ InitEngine

NextKey == IngressKeyed \/ IngressFilterWorker \/ ReplayTimeWindowWorker

SpecKey == InitKey /\ [][NextKey]_vars

\* ------------------------------------------------------------ the mutex
\* LiveTime queries, `window slice 2 seconds` with and without `group by`.
MutexPlans ==
  { p \in Plans : p.IntervalType = "time" /\ p.SequenceField = "" }

\* The run starts where ChannelCapacity ticks have passed before the first
\* row: AggregateWorker has left its loop on the first empty window, and
\* the windows of the other ticks are in the channel, which has room for
\* one more.
InitMutex ==
  /\ plan \in MutexPlans
  /\ exitAfterSeconds = MaxSeconds
  /\ input = <<>>
  /\ ingressToIngressFilterChannel = <<>>
  /\ alive = TRUE
  /\ ingressFilterToWindowChannel = <<>>
  /\ windowToAggregateChannel = [ i \in 1..(ChannelCapacity - 1) |-> <<>> ]
  /\ aggregateToAggregateFilterChannel = <<>>
  /\ aggregateFilterToProjectChannel = <<>>
  /\ projectToProjectFilterChannel = <<>>
  /\ projectFilterToEgressChannel = <<>>
  /\ window = <<>>
  /\ wg = EmptyWindows
  /\ hi = ZeroTime
  /\ appenders = 1
  /\ holding = {}
  /\ windowMutex = Unlocked
  /\ tickPc = "select"
  /\ keys = <<>>
  /\ ticks = 0
  /\ functors = ResetFunctors
  /\ aggregateRunning = FALSE
  /\ ingressFilterSent = <<>>
  /\ windowReceived = <<>>
  /\ windowSent = [ i \in 1..ChannelCapacity |-> <<>> ]
  /\ aggregateSent = <<>>
  /\ aggregateFilterSent = <<>>
  /\ projectSent = <<>>
  /\ projectFilterSent = <<>>
  /\ output = <<>>
  /\ eof = FALSE
  /\ elapsed = 0
  /\ returned = FALSE
  /\ NoCompile

NextMutex ==
  \/ IngressWorker
  \/ IngressFilterWorker
  \/ LiveTimeAppenderReceive
  \/ LiveTimeAppenderLock
  \/ LiveTimeAppenderUnlock
  \/ LiveTimeSelect
  \/ LiveTimeLock
  \/ LiveTimeUnlock
  \/ LiveTimeSend

SpecMutex == InitMutex /\ [][NextMutex]_vars

\* ------------------------------------------------------------ the compiler
\* Compile on a query read from stdin, against the catalog table.  The
\* engine is built and not run.
CompilePlans ==
  { p \in BurstPlans : p.OutputFieldNames = << "s", "n" >> }

InitCompile ==
  /\ plan \in CompilePlans
  /\ exitAfterSeconds = MaxSeconds
  /\ input = <<>>
  /\ ingressToIngressFilterChannel = <<>>
  /\ InitStages
  /\ query \in Queries
  /\ listener = NewListener
  /\ pc = "from"
  /\ goFile = <<>>
  /\ stdout = <<>>

NextCompile ==
  \/ FromClause
  \/ GroupClause
  \/ IngressWhereClause
  \/ WindowClause
  \/ AggregateClause
  \/ AggregateWhereClause
  \/ AppendClause
  \/ ProjectWhereClause
  \/ ToClause
  \/ ExitQueryClause
  \/ WriteBinary

SpecCompile == InitCompile /\ [][NextCompile]_vars

\* Compile on a query without `where`, then the engine built on its plan.
InitPlan ==
  /\ plan \in CompilePlans
  /\ exitAfterSeconds = MaxSeconds
  /\ input = <<>>
  /\ ingressToIngressFilterChannel = <<>>
  /\ InitStages
  /\ query \in PlanQueries
  /\ listener = NewListener
  /\ pc = "from"
  /\ goFile = <<>>
  /\ stdout = <<>>

NextPlan == NextCompile \/ NewEngine

SpecPlan == InitPlan /\ [][NextPlan]_vars

\* ---------------------------------------------------------- the reducers
\* math.MaxInt64 and math.MinInt64, here numbers beyond every value a row
\* has.
MaxInt64 == 1000000
MinInt64 == -1000000

\* An interface{} value: nil, or the value it holds.
Nil == <<>>
Some(value) == << value >>

\* The functors of `fn(x)` over the integer field x, as `var f functor.T`
\* declares them: every field at its zero value.
Zero(kind) ==
  CASE kind = "First" -> [ kind |-> kind, alreadySet |-> FALSE, first |-> Nil ]
    [] kind = "Last" -> [ kind |-> kind, Last |-> Nil ]
    [] kind = "Counter" -> [ kind |-> kind, Count |-> 0 ]
    [] kind = "Averager" -> [ kind |-> kind, Count |-> 0, Sum |-> 0 ]
    [] kind = "Minimizer" -> [ kind |-> kind, Minimum |-> Nil ]
    [] kind = "Maximizer" -> [ kind |-> kind, Maximum |-> Nil ]
    [] kind = "NoOp" -> [ kind |-> kind, TheValue |-> Nil ]
    [] kind = "Summer" -> [ kind |-> kind, Sum |-> 0 ]

\* Functor.Reset.  Last and NoOp have nothing in theirs.
Reset(f) ==
  CASE f.kind = "First" -> [ f EXCEPT !.alreadySet = FALSE ]
    [] f.kind = "Last" -> f
    [] f.kind = "Counter" -> [ f EXCEPT !.Count = 0 ]
    [] f.kind = "Averager" -> [ f EXCEPT !.Count = 0, !.Sum = 0 ]
    [] f.kind = "Minimizer" -> [ f EXCEPT !.Minimum = Some(MaxInt64) ]
    [] f.kind = "Maximizer" -> [ f EXCEPT !.Maximum = Some(MinInt64) ]
    [] f.kind = "NoOp" -> f
    [] f.kind = "Summer" -> [ f EXCEPT !.Sum = 0 ]

\* Functor.Update panics where a type assertion fails: NoOp asserts that
\* TheValue, which nothing ever sets, holds an int64.
UpdatePanics(f, value) ==
  \/ f.kind = "NoOp" /\ f.TheValue = Nil
  \/ f.kind = "Minimizer" /\ f.Minimum = Nil
  \/ f.kind = "Maximizer" /\ f.Maximum = Nil

\* Functor.Update with an int64 value
Update(f, value) ==
  CASE f.kind = "First" ->
         IF ~f.alreadySet
         THEN [ f EXCEPT !.alreadySet = TRUE, !.first = Some(value) ]
         ELSE f
    [] f.kind = "Last" -> [ f EXCEPT !.Last = Some(value) ]
    [] f.kind = "Counter" -> [ f EXCEPT !.Count = @ + 1 ]
    [] f.kind = "Averager" -> [ f EXCEPT !.Count = @ + 1, !.Sum = @ + value ]
    [] f.kind = "Minimizer" ->
         IF value < f.Minimum[1] THEN [ f EXCEPT !.Minimum = Some(value) ]
         ELSE f
    [] f.kind = "Maximizer" ->
         IF value > f.Maximum[1] THEN [ f EXCEPT !.Maximum = Some(value) ]
         ELSE f
    [] f.kind = "NoOp" ->
         IF value < f.TheValue[1] THEN [ f EXCEPT !.TheValue = Some(value) ]
         ELSE f
    [] f.kind = "Summer" -> [ f EXCEPT !.Sum = @ + value ]

\* Functor.Value.  The quotient of Averager is kept as the pair of its
\* terms.
Value(f) ==
  CASE f.kind = "First" -> f.first
    [] f.kind = "Last" -> f.Last
    [] f.kind = "Counter" -> Some(f.Count)
    [] f.kind = "Averager" -> << f.Sum, f.Count >>
    [] f.kind = "Minimizer" -> f.Minimum
    [] f.kind = "Maximizer" -> f.Maximum
    [] f.kind = "NoOp" -> f.TheValue
    [] f.kind = "Summer" -> Some(f.Sum)

\* The reducers of count, sum, average, minimum, maximum, first, last and
\* group
Reducers ==
  { Functor(name) : name \in { "count", "sum", "average", "minimum",
                               "maximum", "first", "last", "group" } }

\* The windows a reducer is fed: one or two values of x.
MaxWindows == 2
Values == {1, 2, 3}
ValueWindows == { << v >> : v \in Values } \cup (Values \X Values)

\* One reducer as Aggregate.Init has made it: declared, then Init, which
\* calls Reset.
InitReducer ==
  /\ plan \in CompilePlans
  /\ exitAfterSeconds = MaxSeconds
  /\ input = <<>>
  /\ ingressToIngressFilterChannel = <<>>
  /\ alive = TRUE
  /\ ingressFilterToWindowChannel = <<>>
  /\ windowToAggregateChannel = <<>>
  /\ aggregateToAggregateFilterChannel = <<>>
  /\ aggregateFilterToProjectChannel = <<>>
  /\ projectToProjectFilterChannel = <<>>
  /\ projectFilterToEgressChannel = <<>>
  /\ window = <<>>
  /\ wg = EmptyWindows
  /\ hi = ZeroTime
  /\ appenders = 0
  /\ holding = {}
  /\ windowMutex = Unlocked
  /\ tickPc = "select"
  /\ keys = <<>>
  /\ ticks = 0
  /\ \E kind \in Reducers : functors = Reset(Zero(kind))
  /\ aggregateRunning = TRUE
  /\ ingressFilterSent = <<>>
  /\ windowReceived = <<>>
  /\ windowSent = <<>>
  /\ aggregateSent = <<>>
  /\ aggregateFilterSent = <<>>
  /\ projectSent = <<>>
  /\ projectFilterSent = <<>>
  /\ output = <<>>
  /\ eof = FALSE
  /\ elapsed = 0
  /\ returned = FALSE
  /\ NoCompile

reducerFrame ==
  << plan, input, channels, wg, hi, liveState, aggregateRunning,
     ingressFilterSent, windowSent, aggregateFilterSent, projectSent,
     projectFilterSent, output, runState, compileState >>

\* The next window arrives and the reducer is reset.
ReducerReset ==
  /\ alive
  /\ window = <<>>
  /\ Len(aggregateSent) = Len(windowReceived)
  /\ Len(windowReceived) < MaxWindows
  /\ \E w \in ValueWindows :
       /\ window' = w
       /\ windowReceived' = Append(windowReceived, w)
  /\ functors' = Reset(functors)
  /\ UNCHANGED << alive, aggregateSent, reducerFrame >>

\* Update with the value of the next row of the window
ReducerUpdate ==
  /\ alive
  /\ window # <<>>
  /\ IF UpdatePanics(functors, Head(window))
     THEN alive' = FALSE /\ UNCHANGED << functors, window >>
     ELSE /\ functors' = Update(functors, Head(window))
          /\ window' = Tail(window)
          /\ alive' = alive
  /\ UNCHANGED << windowReceived, aggregateSent, reducerFrame >>

\* Value at the end of the window
ReducerValue ==
  /\ alive
  /\ window = <<>>
  /\ Len(aggregateSent) < Len(windowReceived)
  /\ aggregateSent' = Append(aggregateSent, Value(functors))
  /\ UNCHANGED << alive, functors, window, windowReceived, reducerFrame >>

NextReducer == ReducerReset \/ ReducerUpdate \/ ReducerValue

SpecReducer == InitReducer /\ [][NextReducer]_vars

\* ------------------------------------------------------------ the terms
\* The operands of a term: a timestamp literal, the time field, a data
\* field, an integer, and durations in the three units of the grammar.
Durations ==
  [ rule : {"Duration"}, amount : {"5"},
    unit : {"milliseconds", "seconds", "minutes"} ]

Operands ==
  { [ rule |-> "Timestamp", text |-> "'2026-11-01T00:00:00Z'" ],
    [ rule |-> "Variable", text |-> "t" ],
    [ rule |-> "Variable", text |-> "x" ],
    [ rule |-> "Integer", text |-> "5" ] }
  \cup Durations

\* term op = (ADD | SUB) term
AddSubs == [ rule : {"AddSub"}, op : {"+", "-"}, left : Operands, right : Operands ]

\* The Exit events of the tree walker over an AddSub term, in its order
TermWalk(term) == << term.left, term.right, [ rule |-> "AddSub", op |-> term.op ] >>

\* The walk over a term of the ingress `where` clause: the listener is the
\* one ExitFromClause has left.
InitTerm ==
  /\ plan \in CompilePlans
  /\ exitAfterSeconds = MaxSeconds
  /\ input = <<>>
  /\ ingressToIngressFilterChannel = <<>>
  /\ InitStages
  /\ \E term \in AddSubs : query = [ term |-> term, walk |-> TermWalk(term) ]
  /\ listener = [ NewListener EXCEPT !.filterType = "Ingress",
                                     !.ingressNode = Table ]
  /\ pc = "term"
  /\ goFile = <<>>
  /\ stdout = <<>>

\* The walker leaves the node at the head of the walk.
Leave == query' = [ query EXCEPT !.walk = Tail(@) ]

\* ExitInteger, ExitTimestamp, ExitVariable
TermAtom ==
  /\ pc = "term"
  /\ query.walk # <<>>
  /\ Head(query.walk).rule \in {"Integer", "Timestamp", "Variable"}
  /\ LET atom == Head(query.walk)
         tuple == ExitAtom(listener, atom, listener.VariableCounter)
     IN IF tuple = Panic
        THEN pc' = "panic" /\ UNCHANGED << query, listener >>
        ELSE /\ listener' =
                  [ push(listener, tuple)
                      EXCEPT !.VariableCounter = @ + Timestamps(atom) ]
             /\ Leave
             /\ pc' = pc
  /\ UNCHANGED << goFile, stdout, engineState >>

\* ExitDuration
TermDuration ==
  /\ pc = "term"
  /\ query.walk # <<>>
  /\ Head(query.walk).rule = "Duration"
  /\ IF ExitDurationPanics(Head(query.walk).unit)
     THEN pc' = "panic" /\ UNCHANGED << query, listener >>
     ELSE /\ listener' =
               [ push(listener, ExitDuration(listener.VariableCounter))
                   EXCEPT !.VariableCounter = @ + 1 ]
          /\ Leave
          /\ pc' = pc
  /\ UNCHANGED << goFile, stdout, engineState >>

\* ExitAddSub
TermAddSub ==
  /\ pc = "term"
  /\ query.walk # <<>>
  /\ Head(query.walk).rule = "AddSub"
  /\ LET right == top(listener)
         left == top(pop(listener))
     IN listener' = push(pop(pop(listener)),
                         ExitAddSub(Head(query.walk).op, left, right))
  /\ Leave
  /\ pc' = "done"
  /\ UNCHANGED << goFile, stdout, engineState >>

NextTerm == TermAtom \/ TermDuration \/ TermAddSub

SpecTerm == InitTerm /\ [][NextTerm]_vars

\* ------------------------------------------------------- the predicates
\* The tokens of a `where` expression.  A comparison `term op term` is one
\* token here: x < 5, g == "a" and x < 7.
Comparisons ==
  { [ rule |-> "Equation", left |-> [ rule |-> "Variable", text |-> "x" ],
      op |-> "<", right |-> [ rule |-> "Integer", text |-> "5" ] ],
    [ rule |-> "Equation", left |-> [ rule |-> "Variable", text |-> "g" ],
      op |-> "==", right |-> [ rule |-> "String", text |-> "\"a\"" ] ],
    [ rule |-> "Equation", left |-> [ rule |-> "Variable", text |-> "x" ],
      op |-> "<", right |-> [ rule |-> "Integer", text |-> "7" ] ] }

Token(rule) == [ rule |-> rule ]

\* NOT LPAREN expression RPAREN
Not(expression) ==
  << Token("NOT"), Token("LPAREN") >> \o expression \o << Token("RPAREN") >>

\* A comparison, or the negation of a comparison or of a connection with
\* x < 5 on its left
Simple ==
  LET first == CHOOSE c \in Comparisons : c.right.text = "5"
  IN { << c >> : c \in Comparisons }
     \cup { Not(<< c >>) : c \in Comparisons }
     \cup { Not(<< first, Token(op), c >>) :
              op \in {"AND", "OR"}, c \in Comparisons \ { first } }

\* The `where` expressions: one, two or three of these, connected by `and`
\* and `or`.
Predicates34 ==
  Simple
  \cup { a \o << Token(op) >> \o b : a \in Simple, b \in Simple,
                                     op \in {"AND", "OR"} }
  \cup { a \o << Token(op1) >> \o b \o << Token(op2) >> \o c :
           a \in { << x >> : x \in Comparisons }, b \in Simple,
           c \in { << x >> : x \in Comparisons },
           op1 \in {"AND", "OR"}, op2 \in {"AND", "OR"} }

\* How many parentheses are open before token i
Depth(tokens, i, open, close) ==
  Cardinality({ j \in 1..(i - 1) : tokens[j] = open })
    - Cardinality({ j \in 1..(i - 1) : tokens[j] = close })

\* The parse tree of the rule `expression`, as the Exit events of the
\* walker over it.  AND and OR are one alternative of the rule, so they
\* have one precedence and associate to the left: the root of a chain is
\* its last operator.
RECURSIVE ExpressionWalk(_)
ExpressionWalk(tokens) ==
  LET ops == { i \in 1..Len(tokens) :
                 /\ tokens[i].rule \in {"AND", "OR"}
                 /\ Depth(tokens, i, Token("LPAREN"), Token("RPAREN")) = 0 }
      last == CHOOSE i \in ops : \A j \in ops : j <= i
  IN IF ops # {}
     THEN ExpressionWalk(SubSeq(tokens, 1, last - 1))
            \o ExpressionWalk(SubSeq(tokens, last + 1, Len(tokens)))
            \o << [ rule |-> "Connection", op |-> tokens[last].rule ] >>
     ELSE IF tokens[1].rule = "NOT"
     THEN ExpressionWalk(SubSeq(tokens, 3, Len(tokens) - 1))
            \o << [ rule |-> "Negation" ] >>
     ELSE tokens

\* The walk over the ingress `where` clause: the listener is the one
\* ExitFromClause has left.
InitPredicate ==
  /\ plan \in CompilePlans
  /\ exitAfterSeconds = MaxSeconds
  /\ input = <<>>
  /\ ingressToIngressFilterChannel = <<>>
  /\ InitStages
  /\ \E text \in Predicates34 :
       query = [ text |-> text, walk |-> ExpressionWalk(text) ]
  /\ listener = [ NewListener EXCEPT !.filterType = "Ingress",
                                     !.ingressNode = Table ]
  /\ pc = "expression"
  /\ goFile = <<>>
  /\ stdout = <<>>

\* The handlers of the two terms, then ExitEquation
PredicateEquation ==
  /\ pc = "expression"
  /\ query.walk # <<>>
  /\ Head(query.walk).rule = "Equation"
  /\ LET e == Head(query.walk)
         tuple == Expression(listener, e)
     IN IF tuple = Panic
        THEN pc' = "panic" /\ UNCHANGED << query, listener >>
        ELSE /\ listener' = push(Walked(listener, e),
                                 [ Code |-> << tuple.Code >>,
                                   Kind |-> tuple.Kind ])
             /\ Leave
             /\ pc' = pc
  /\ UNCHANGED << goFile, stdout, engineState >>

\* ExitConnection
PredicateConnection ==
  /\ pc = "expression"
  /\ query.walk # <<>>
  /\ Head(query.walk).rule = "Connection"
  /\ LET right == top(listener)
         left == top(pop(listener))
     IN listener' = push(pop(pop(listener)),
                         ExitConnection(Head(query.walk).op, left, right))
  /\ Leave
  /\ pc' = pc
  /\ UNCHANGED << goFile, stdout, engineState >>

\* ExitNegation
PredicateNegation ==
  /\ pc = "expression"
  /\ query.walk # <<>>
  /\ Head(query.walk).rule = "Negation"
  /\ listener' = push(pop(listener), ExitNegation(top(listener)))
  /\ Leave
  /\ pc' = pc
  /\ UNCHANGED << goFile, stdout, engineState >>

\* ExitWhereClause and ExitIngressWhereClause
PredicateWhere ==
  /\ pc = "expression"
  /\ query.walk = <<>>
  /\ listener' = [ ExitWhereClause(pop(listener), top(listener).Code)
                     EXCEPT !.hasIngressFilter = TRUE ]
  /\ pc' = "done"
  /\ UNCHANGED << query, goFile, stdout, engineState >>

NextPredicate ==
  \/ PredicateEquation
  \/ PredicateConnection
  \/ PredicateNegation
  \/ PredicateWhere

SpecPredicate == InitPredicate /\ [][NextPredicate]_vars

\* The rows the generated filter is called with
Payloads == [ x : {3, 6, 9}, g : {"a", "b"} ]

\* `pass = ` + body in the function GoEval generates: the value Go gives
\* the condition for the payload p.  || binds weaker than &&, && weaker
\* than ! and the comparisons.
RECURSIVE Pass(_, _)
Pass(body, p) ==
  LET at(op) == { i \in 1..Len(body) :
                    body[i] = op /\ Depth(body, i, "(", ")") = 0 }
      cut(S) == CHOOSE i \in S : \A j \in S : j <= i
      before(i) == SubSeq(body, 1, i - 1)
      after(i) == SubSeq(body, i + 1, Len(body))
  IN IF at("||") # {}
     THEN Pass(before(cut(at("||"))), p) \/ Pass(after(cut(at("||"))), p)
     ELSE IF at("&&") # {}
     THEN Pass(before(cut(at("&&"))), p) /\ Pass(after(cut(at("&&"))), p)
     ELSE IF body[1] = "!"
     THEN ~Pass(SubSeq(body, 3, Len(body) - 1), p)
     ELSE IF body[1] = "("
     THEN Pass(SubSeq(body, 2, Len(body) - 1), p)
     ELSE CASE body[1] = "p.x < 5" -> p.x < 5
            [] body[1] = "p.x < 7" -> p.x < 7
            [] body[1] = "p.g == \"a\"" -> p.g = "a"

\* --------------------------------------------------- the `where` clauses
\* The predicates of the three optional `where` clauses, over the fields
\* of their stage: the table, the aggregate aliases, the `append` list.
WhereEquations(slot) ==
  LET less(name, literal) ==
        [ left |-> [ rule |-> "Variable", text |-> name ], op |-> "<",
          right |-> literal ]
      five == [ rule |-> "Integer", text |-> "5" ]
      a == [ rule |-> "String", text |-> "\"a\"" ]
      instant == [ rule |-> "Timestamp", text |-> "'2026-11-01T00:00:00Z'" ]
  IN CASE slot = "ingressWhere" -> { less("x", five), less("t", instant) }
       [] slot = "aggregateWhere" -> { less("s", five), less("n", five) }
       [] slot = "projectWhere" -> { less("s", a), less("n", a) }

\* Every combination of present and absent `where` clauses, around a slice
\* window or a session window.
WhereQueries ==
  LET clauses(slot) == { <<>> } \cup { << e >> : e \in WhereEquations(slot) }
      aggregations ==
        << [ function |-> "sum", field |-> "x", alias |-> "s" ],
           [ function |-> "count", field |-> "x", alias |-> "n" ] >>
  IN { [ QueryWith("none", SessionOpenDefault, session, aggregations,
                   << "s", "n" >>)
           EXCEPT !.ingressWhere = i, !.aggregateWhere = a,
                  !.projectWhere = p ] :
         session \in BOOLEAN, i \in clauses("ingressWhere"),
         a \in clauses("aggregateWhere"), p \in clauses("projectWhere") }

InitWhere ==
  /\ plan \in CompilePlans
  /\ exitAfterSeconds = MaxSeconds
  /\ input = <<>>
  /\ ingressToIngressFilterChannel = <<>>
  /\ InitStages
  /\ query \in WhereQueries
  /\ listener = NewListener
  /\ pc = "from"
  /\ goFile = <<>>
  /\ stdout = <<>>

SpecWhere == InitWhere /\ [][NextCompile]_vars

\* ------------------------------------------------------ the window width
\* `window slice N <unit>` by time, for every unit of the grammar rule
\* `duration`, with and without `based on t` and `group by g`.
WidthQueries ==
  LET s == [ function : AggregateHandlers, field : {"x"}, alias : {"s"} ]
      w == [ kind : {"slice"}, amount : {"1", "2"},
             unit : {"milliseconds", "seconds", "minutes"},
             sequenceField : {"", "t"} ]
  IN { [ QueryWith("none", SessionOpenDefault, FALSE, << f >>, << "s" >>)
           EXCEPT !.window = v, !.groups = g ] :
         v \in w, g \in { <<>>, << "g" >> }, f \in s }

InitWidth ==
  /\ plan \in CompilePlans
  /\ exitAfterSeconds = MaxSeconds
  /\ input = <<>>
  /\ ingressToIngressFilterChannel = <<>>
  /\ InitStages
  /\ query \in WidthQueries
  /\ listener = NewListener
  /\ pc = "from"
  /\ goFile = <<>>
  /\ stdout = <<>>

SpecWidth == InitWidth /\ [][NextPlan]_vars

\* LiveTimeWindowWorker's ticker period in milliseconds:
\* int(e.window.TickerSeconds * 1000)
intervalMillis == plan.TickerSeconds * 1000

\* ReplayTimeWindowWorker's bucket width, time.Second *
\* time.Duration(e.window.TickerSeconds), in milliseconds
chunkDuration == 1000 * plan.TickerSeconds

\* ------------------------------------------------ the egress configurations
\* Plans of `window slice 1 rows` queries whose `append` lists s and n in
\* either order or s alone, grouped by none, one or two fields in either
\* order.
EgressPlans ==
  [ WindowType : {"slice"},
    IntervalType : {"distance"},
    SequenceField : {""},
    GroupFieldNames : {<<>>, <<"g">>, <<"g", "h">>, <<"h", "g">>},
    SessionIncludeClosingRow : {FALSE},
    IntervalRows : {1},
    TickerSeconds : {0},
    IntervalField : {""},
    expireAfter : {0},
    hasWhere : {FALSE},
    IngressFilter : {""},
    OutputFieldNames : {<<"s", "n">>, <<"n", "s">>, <<"s">>} ]

InitEgress == plan \in EgressPlans /\ exitAfterSeconds = MaxSeconds /\ InitEngine

NextEgress ==
  \/ IngressWorker
  \/ IngressFilterWorker
  \/ LiveDistanceWindowWorker
  \/ AggregateWorker
  \/ AggregateFilterWorker
  \/ ProjectWorker
  \/ ProjectFilterWorker
  \/ EgressWorker

SpecEgress == InitEgress /\ [][NextEgress]_vars

\* ---------------------------------------------- a predicate that divides
\* The plans of `where 4 / x > 1 window slice N rows aggregate sum(x) as s,
\* count(x) as n where n > 1 append s, n where s > 1`, x an integer64 field.
DividePlans ==
  [ WindowType : {"slice"},
    IntervalType : {"distance"},
    SequenceField : {""},
    GroupFieldNames : {<<>>},
    SessionIncludeClosingRow : {FALSE},
    IntervalRows : IntervalAmounts,
    TickerSeconds : {0},
    IntervalField : {""},
    expireAfter : {0},
    hasWhere : {TRUE},
    IngressFilter : {"4 / p.x > 1"},
    OutputFieldNames : {<<"s", "n">>} ]

InitDivide == plan \in DividePlans /\ exitAfterSeconds = MaxSeconds /\ InitEngine

SpecDivide == InitDivide /\ [][NextEgress]_vars

\* ------------------------------------------------ records that do not parse
\* The `window slice N rows` queries on an input with malformed records
ParsePlans == { p \in Plans : p.IntervalType = "distance" /\ p.SequenceField = "" }

InitParse == plan \in ParsePlans /\ exitAfterSeconds = MaxSeconds /\ InitEngine

NextParse == NextEgress \/ IngressMalformed

SpecParse == InitParse /\ [][NextParse]_vars

\* ======================================================================
\* Properties
\* ======================================================================
\* The windows the window stage holds open.
OpenWindows ==
  IF Grouped /\ WindowMode # "LiveDistance"
  THEN { wg[key] : key \in DOMAIN wg }
  ELSE { window }

\* The rows of one group key in the order the window stage received them.
KeyRows(key) == SelectSeq(windowReceived, LAMBDA id : GroupKey(id) = key)

ReceivedKeys == { GroupKey(id) : id \in Range(windowReceived) }

\* The ReplayTime bucket of a row: floor(t / width).
Bucket(id) == input[id].t \div plan.TickerSeconds

InTimestampOrder ==
  \A i, j \in DOMAIN input : i < j => input[i].t <= input[j].t

\* C1: in ReplayTime mode two rows that passed the ingress filter, have the
\* same group key and lie in the same bucket are delivered to the aggregate
\* stage in the same window.  Stated for input that arrives in timestamp
\* order, the case of a replay.
C1_SameBucketSameWindow ==
  (WindowMode = "ReplayTime" /\ InTimestampOrder) =>
    \A i, j \in Range(windowReceived) :
      (GroupKey(i) = GroupKey(j) /\ Bucket(i) = Bucket(j)) =>
        \A k \in DOMAIN windowSent :
          (i \in Range(windowSent[k])) <=> (j \in Range(windowSent[k]))

\* C2: in ReplayTime mode a row whose timestamp equals the high boundary of
\* the open bucket belongs to the next bucket: it is never appended to a
\* window of the bucket that ends at that boundary, so no open window holds
\* a row stamped with the current `hi`.
C2_BoundaryRowOpensNextBucket ==
  WindowMode = "ReplayTime" =>
    \A w \in OpenWindows : \A id \in Range(w) : input[id].t # hi

\* C3: no window worker ever sends a window with zero rows.
C3_NoEmptyWindowSent ==
  \A k \in DOMAIN windowSent : Len(windowSent[k]) > 0

\* C4: in Session mode every emitted window is, in arrival order, the row
\* on which `begin` was true, the following rows of that group key received
\* while the session was open, and the row that matched `end` if and only
\* if the close is inclusive.
SessionWindowShape(w) ==
  /\ w # <<>>
  /\ EvalSessionOpenFilter(input[w[1]])
  /\ LET rows == KeyRows(GroupKey(w[1]))
     IN \E first \in DOMAIN rows :
          LET last == first + Len(w) - 1
          IN /\ last <= Len(rows)
             /\ w = SubSeq(rows, first, last)
             /\ IF plan.SessionIncludeClosingRow
                THEN /\ Len(w) >= 2
                     /\ EvalSessionCloseFilter(input[rows[last]])
                     /\ \A i \in (first + 1)..(last - 1) :
                          ~EvalSessionCloseFilter(input[rows[i]])
                ELSE /\ last < Len(rows)
                     /\ EvalSessionCloseFilter(input[rows[last + 1]])
                     /\ \A i \in (first + 1)..last :
                          ~EvalSessionCloseFilter(input[rows[i]])

C4_SessionWindowContents ==
  WindowMode = "Session" =>
    \A k \in DOMAIN windowSent : SessionWindowShape(windowSent[k])

\* Whether a session is open after the rows of one key, as the session rule
\* reads: `begin` opens, `end` closes, and the closing row may open again.
RECURSIVE SessionOpenAfter(_)
SessionOpenAfter(rows) ==
  IF rows = <<>> THEN FALSE
  ELSE LET row == input[rows[Len(rows)]]
           before == SessionOpenAfter(SubSeq(rows, 1, Len(rows) - 1))
       IN EvalSessionOpenFilter(row) \/ (before /\ ~EvalSessionCloseFilter(row))

\* The engine's own idea of an open session.
IsOpen(key) == IF Grouped THEN key \in DOMAIN wg ELSE Len(window) > 0

\* C5: in Session mode, once a row that matches `end` and not `begin` has
\* closed the session of a group key, no session of that key is open and
\* every later row of the key that arrives before the next `begin` row is
\* in no emitted window.
C5_NoSessionAfterClose ==
  WindowMode = "Session" =>
    \A key \in ReceivedKeys :
      LET rows == KeyRows(key)
      IN \A j \in DOMAIN rows :
           ( /\ SessionOpenAfter(SubSeq(rows, 1, j - 1))
             /\ EvalSessionCloseFilter(input[rows[j]])
             /\ ~EvalSessionOpenFilter(input[rows[j]])
             /\ \A i \in (j + 1)..Len(rows) : ~EvalSessionOpenFilter(input[rows[i]]) )
           => /\ ~IsOpen(key)
              /\ \A i \in (j + 1)..Len(rows) :
                   \A k \in DOMAIN windowSent : rows[i] \notin Range(windowSent[k])

\* C6: in Session mode a session does not stay open across a gap of event
\* time longer than `expire after`: two rows of a key that follow each
\* other more than that duration apart are never in the same window.
C6_SessionExpires ==
  WindowMode = "Session" =>
    \A w \in OpenWindows \cup Range(windowSent) :
      \A i \in 1..(Len(w) - 1) :
        input[w[i + 1]].t - input[w[i]].t <= plan.expireAfter

\* C7: in LiveDistance mode the k-th window sent is rows (k-1)*N+1 .. k*N of
\* the filtered input, so floor(n / N) windows have been sent after n rows;
\* without `where` clauses the same number of records is written once the
\* stages behind the window have drained.
C7_LiveDistanceWindows ==
  WindowMode = "LiveDistance" =>
    LET n == Len(windowReceived)
        N == plan.IntervalRows
    IN /\ windowReceived =
            SubSeq(ingressFilterSent, 1,
                   Len(ingressFilterSent) - Len(ingressFilterToWindowChannel))
       /\ windowSent = [ k \in 1..(n \div N) |->
                           SubSeq(windowReceived, (k - 1) * N + 1, k * N) ]
       /\ Len(output) <= n \div N
       /\ ( /\ ~plan.hasWhere
            /\ windowToAggregateChannel = <<>>
            /\ aggregateToAggregateFilterChannel = <<>>
            /\ aggregateFilterToProjectChannel = <<>>
            /\ projectToProjectFilterChannel = <<>>
            /\ projectFilterToEgressChannel = <<>> )
          => Len(output) = n \div N

C7_Witness ==
  /\ WindowMode = "LiveDistance"
  /\ plan.IntervalRows = 2
  /\ Len(windowReceived) = 3
  /\ Len(windowSent) = 1
  /\ Len(output) = 1

\* C8: with a `group by` clause every window delivered to the aggregate
\* stage holds rows of one group key only.
C8_OneKeyPerWindow ==
  Grouped =>
    \A k \in DOMAIN windowSent :
      \A i, j \in Range(windowSent[k]) : GroupKey(i) = GroupKey(j)

\* The windows AggregateWorker has taken from its channel.
AggregateReceived ==
  SubSeq(windowSent, 1, Len(windowSent) - Len(windowToAggregateChannel))

\* C9: AggregateWorker sends exactly one row per non-empty window it
\* received, in the order received (the k-th row counts the rows of the k-th
\* such window), with the group of that window's first row.
C9_OneRowPerWindow ==
  LET nonEmpty == SelectSeq(AggregateReceived, LAMBDA w : Len(w) > 0)
  IN /\ Len(aggregateSent) = Len(nonEmpty)
     /\ \A k \in DOMAIN aggregateSent :
          /\ aggregateSent[k].n = Len(nonEmpty[k])
          /\ aggregateSent[k].group = Group(input[nonEmpty[k][1]])

C9_Witness ==
  /\ Len(aggregateSent) = 2
  /\ aggregateSent[1].n # aggregateSent[2].n
  /\ aggregateSent[1].group # aggregateSent[2].group

\* What each filter worker has taken from its channel.
IngressFilterReceived ==
  [ i \in 1..(Len(input) - Len(ingressToIngressFilterChannel)) |-> i ]

AggregateFilterReceived ==
  SubSeq(aggregateSent, 1,
         Len(aggregateSent) - Len(aggregateToAggregateFilterChannel))

ProjectFilterReceived ==
  SubSeq(projectSent, 1, Len(projectSent) - Len(projectToProjectFilterChannel))

\* C10: each filter worker sends exactly the rows of its input for which
\* its predicate (x > 0, n > 1, s > 1) holds, in order and once; without a
\* `where` it sends every row; and no record is written for a window whose
\* aggregate row fails n > 1.
C10_FiltersSelect ==
  /\ ingressFilterSent =
       SelectSeq(IngressFilterReceived,
                 LAMBDA id : plan.hasWhere => input[id].x > 0)
  /\ aggregateFilterSent =
       SelectSeq(AggregateFilterReceived, LAMBDA row : plan.hasWhere => row.n > 1)
  /\ projectFilterSent =
       SelectSeq(ProjectFilterReceived, LAMBDA row : plan.hasWhere => row.s > 1)
  /\ plan.hasWhere => \A k \in DOMAIN output : output[k][2] > 1

C10_Witness ==
  /\ plan.hasWhere
  /\ Len(ingressFilterSent) < Len(IngressFilterReceived)
  /\ Len(aggregateFilterSent) < Len(AggregateFilterReceived)

\* The egress rows EgressWorker has taken from its channel.
EgressReceived ==
  SubSeq(projectFilterSent, 1,
         Len(projectFilterSent) - Len(projectFilterToEgressChannel))

\* C11: one record is written per row that reached Egress, in order, and
\* the record lists the projected payload fields in the order of the
\* `append` list followed by the group fields in the order of `group by`.
C11_OneRecordPerRow ==
  /\ Len(output) = Len(EgressReceived)
  /\ \A k \in DOMAIN output :
       LET row == EgressReceived[k]
           payload == IF plan.OutputFieldNames = <<"s", "n">> THEN << row.s, row.n >>
                      ELSE IF plan.OutputFieldNames = <<"n", "s">> THEN << row.n, row.s >>
                      ELSE << row.s >>
           group == IF plan.GroupFieldNames = <<"g", "h">> THEN << row.group.g, row.group.h >>
                    ELSE IF plan.GroupFieldNames = <<"h", "g">> THEN << row.group.h, row.group.g >>
                    ELSE IF plan.GroupFieldNames = <<"g">> THEN << row.group.g >>
                    ELSE <<>>
       IN output[k] = payload \o group

C11_Witness ==
  /\ plan.OutputFieldNames = <<"n", "s">>
  /\ plan.GroupFieldNames = <<"h", "g">>
  /\ Len(output) = 2
  /\ output[1] = << 1, 2, "b", "a" >>

IsPrefix(a, b) == Len(a) <= Len(b) /\ a = SubSeq(b, 1, Len(a))

RECURSIVE SumX(_)
SumX(rows) == IF rows = <<>> THEN 0 ELSE input[Head(rows)].x + SumX(Tail(rows))

\* The records of the windows of `windows` that pass `where n > 1` and
\* `where s > 1`, in the order of the windows.
RECURSIVE RecordsOf(_)
RecordsOf(windows) ==
  IF windows = <<>> THEN <<>>
  ELSE LET w == Head(windows)
           first == input[w[1]]
           record == << SumX(w), Len(w) >>
                     \o [ i \in 1..Len(plan.GroupFieldNames) |->
                            first[plan.GroupFieldNames[i]] ]
           passes == plan.hasWhere => (Len(w) > 1 /\ SumX(w) > 1)
       IN (IF passes THEN << record >> ELSE <<>>) \o RecordsOf(Tail(windows))

\* The group key a written record carries.
RecordKey(record) ==
  Concat(SubSeq(record, Len(plan.OutputFieldNames) + 1, Len(record)))

\* C12: within a group key the records are written in the order in which
\* the windows of that key were closed and sent: the records of a key are
\* the records of the first so many non-empty windows of the key, in order.
C12_RecordsInCloseOrder ==
  (plan.OutputFieldNames = <<"s", "n">> /\ output # <<>>) =>
    \A key \in { Concat(group) : group \in [ 1..Len(plan.GroupFieldNames) -> GroupValues ] } :
      LET written == SelectSeq(output, LAMBDA record : RecordKey(record) = key)
      IN \/ written = <<>>
         \/ IsPrefix(written,
                     RecordsOf(SelectSeq(windowSent,
                                         LAMBDA w : w # <<>> /\ GroupKey(w[1]) = key)))

C12_Witness ==
  /\ Grouped
  /\ Len(windowSent) = 2
  /\ output = << << 4, 2, "a" >>, << 2, 1, "a" >> >>

\* C13: within every window the rows are in the order in which they were
\* sent on the ingress-filter-to-window channel (row ids grow in that
\* order), which is the order AggregateWorker feeds them to the reducers.
C13_RowsInArrivalOrder ==
  \A k \in DOMAIN windowSent :
    \A i, j \in DOMAIN windowSent[k] : i < j => windowSent[k][i] < windowSent[k][j]

\* Every row that passed the ingress filter is in a window that was sent.
Flushed ==
  \A id \in Range(ingressFilterSent) :
    \E k \in DOMAIN windowSent : id \in Range(windowSent[k])

\* C14: once the input has ended, every row that passed the ingress filter
\* is eventually in a window sent to the aggregate stage, the rows of the
\* window that was open at the end of the input included.
C14_DrainOnEOF == eof ~> Flushed

\* C15: Run returns when and only when exitAfterSeconds have elapsed: it has
\* not returned before, whatever the input and the workers have done, and
\* it does return, whether or not the input ends or a worker can move.
C15_ReturnsAtTimeout ==
  /\ [](returned => elapsed = exitAfterSeconds)
  /\ [](elapsed < exitAfterSeconds => ~returned)
  /\ <>returned

C15_Witness ==
  /\ returned
  /\ exitAfterSeconds = MaxSeconds
  /\ ~eof
  /\ window # <<>>
  /\ output # <<>>

\* C16: no channel ever holds more than ChannelCapacity items, and the
\* ingress channel delivers what was sent on it in order, once and without
\* gaps, also after its producer had to wait on the full channel: the rows
\* taken from it followed by the rows still in it are rows 1..n.
C16_BoundedFifo ==
  /\ \A i \in 1..7 : Len(channels[i]) <= ChannelCapacity
  /\ IngressFilterReceived \o ingressToIngressFilterChannel
       = [ i \in 1..Len(input) |-> i ]
  /\ ~plan.hasWhere => ingressFilterSent = IngressFilterReceived

C16_Witness ==
  /\ Len(input) = ChannelCapacity + MaxBurst
  /\ Len(ingressToIngressFilterChannel) = ChannelCapacity
  /\ Len(ingressFilterSent) = MaxBurst

\* ------------------------------------------------ properties of the compiler
\* The aggregations of the query that name a field the table does not have
UnknownAggregateFields ==
  { i \in 1..Len(query.aggregations) :
      Named(Table, query.aggregations[i].field) = {} }

\* C17: a query with an aggregate call over a field that is not in the
\* `from` table is not compiled: no plan is written for it, so that no Call
\* of a written plan has another field of the table as its input.
C17_UnknownAggregateFieldRejected ==
  UnknownAggregateFields # {} => stdout = <<>>

\* The predicates of the query, each with the stage it belongs to: the
\* session predicates and the first `where` to the ingress stage, the
\* `where` after `aggregate` to the aggregate stage, the `where` after
\* `append` to the project stage.
Predicates ==
  { [ stage |-> "Ingress", e |-> query.ingressWhere[i] ] :
      i \in 1..Len(query.ingressWhere) }
  \cup { [ stage |-> "Ingress", e |-> query.sessionOpen[i] ] :
           i \in 1..Len(query.sessionOpen) }
  \cup { [ stage |-> "Ingress", e |-> query.sessionClose[i] ] :
           i \in 1..Len(query.sessionClose) }
  \cup { [ stage |-> "Aggregate", e |-> query.aggregateWhere[i] ] :
           i \in 1..Len(query.aggregateWhere) }
  \cup { [ stage |-> "Project", e |-> query.projectWhere[i] ] :
           i \in 1..Len(query.projectWhere) }

\* The field names a predicate of the stage may use: the fields of the
\* table, the aggregate aliases, the names of the `append` list.
StageSchema(stage) ==
  CASE stage = "Ingress" -> { Table[i].name : i \in 1..Len(Table) }
    [] stage = "Aggregate" ->
         { query.aggregations[i].alias : i \in 1..Len(query.aggregations) }
    [] stage = "Project" -> Range(query.projections)

\* The field names an equation refers to
NamesOf(e) ==
  { a.text : a \in { b \in {e.left, e.right} : b.rule = "Variable" } }

\* The predicates that name a field their stage does not have
UnresolvedPredicates ==
  { p \in Predicates : ~(NamesOf(p.e) \subseteq StageSchema(p.stage)) }

\* C18: a query with a predicate (a `where` or a session begin/end
\* predicate) that names a field outside the schema of the predicate's stage
\* is never compiled: the compiler writes neither the filter code nor a
\* byte of the plan, and does not end normally.
C18_UnresolvedNameAborts ==
  UnresolvedPredicates # {} => stdout = <<>> /\ goFile = <<>> /\ pc # "done"

\* The walk has stopped in the `where` after `aggregate`, whose predicate
\* names the table field x, which is not an aggregate alias.
C18_Witness ==
  /\ pc = "panic"
  /\ listener.filterType = "Aggregate"
  /\ query.aggregateWhere # <<>>
  /\ query.aggregateWhere[1].left = [ rule |-> "Variable", text |-> "x" ]
  /\ stdout = <<>>

StageFields(stage) ==
  CASE stage = "Ingress" -> listener.ingressNode
    [] stage = "Aggregate" -> listener.aggregateNode
    [] stage = "Project" -> listener.projectNode

\* What an operand is: a time, a text, a number or a boolean
OperandClass(stage, atom) ==
  CASE atom.rule = "Integer" -> "number"
    [] atom.rule = "String" -> "text"
    [] atom.rule = "Timestamp" -> "time"
    [] atom.rule = "Variable" ->
         LET fields == StageFields(stage)
             field == fields[Lowest(Named(fields, atom.text))]
         IN IF field.usage = "time" THEN "time"
            ELSE IF field.type = "text" THEN "text"
            ELSE IF field.type \in {"integer64", "float64"} THEN "number"
            ELSE "boolean"

\* C20: the compiler emits no predicate for a comparison of operands of
\* incompatible kinds: once the filter code is written, the two sides of
\* every comparison of the query are both times, both texts or both numbers.
C20_IncompatibleKindsRejected ==
  goFile # <<>> =>
    \A p \in Predicates :
      OperandClass(p.stage, p.e.left) = OperandClass(p.stage, p.e.right)

\* C21: a row on which the predicate divides by zero is dropped by its
\* filter and the engine keeps running: no worker dies, and the ingress
\* filter has sent exactly the rows with a divisor other than zero that
\* satisfy 4 / x > 1.
C21_DivisionByZeroDropsRow ==
  plan.IngressFilter = "4 / p.x > 1" =>
    /\ alive
    /\ ingressFilterSent =
         SelectSeq(IngressFilterReceived,
                   LAMBDA id : input[id].x # 0 /\ (4 \div input[id].x) > 1)

\* C22: a record that cannot be parsed is dropped and the engine goes on:
\* reading it stops no worker, so the records after it are read and
\* processed.
C22_MalformedRecordDropped ==
  alive /\ ingressFilterSent = IngressFilterReceived


\* The orders in which the keys of the rows received so far can be listed.
KeyOrders ==
  LET seen == { GroupKey(id) : id \in Range(windowReceived) }
  IN { order \in [ 1..Cardinality(seen) -> seen ] :
         \A i, j \in DOMAIN order : i # j => order[i] # order[j] }

\* The windows a ReplayTime run sends for the rows `rows` when every flush
\* lists the open windows in the order `order` of their keys.
RECURSIVE ReplayTimeWindows(_, _, _, _)
ReplayTimeWindows(rows, high, open, order) ==
  IF rows = <<>> THEN <<>>
  ELSE LET id == Head(rows)
           t == Timestamp(id, plan.SequenceField)
           listed == SelectSeq(order, LAMBDA key : key \in DOMAIN open)
       IN IF high < t
          THEN [ i \in DOMAIN listed |-> open[listed[i]] ]
                 \o ReplayTimeWindows(Tail(rows),
                      surroundingTimeInterval(t, plan.TickerSeconds).hi,
                      WgAppend(EmptyWindows, id), order)
          ELSE ReplayTimeWindows(Tail(rows), high, WgAppend(open, id), order)

\* C23: replay is deterministic.  In a ReplayTime run, with or without
\* `group by`, the windows sent to the aggregate stage depend on the rows
\* received only: whatever order the open windows are listed in at a
\* flush, the same windows are sent in the same order.
C23_ReplayDeterministic ==
  WindowMode = "ReplayTime" =>
    \A order \in KeyOrders :
      windowSent = ReplayTimeWindows(windowReceived, ZeroTime, EmptyWindows, order)

\* The window mode the properties of a window node select, if any
ConfiguredMode(properties) ==
  IF properties = <<>> THEN "none"
  ELSE CASE properties[1].value = "session" -> "session"
         [] properties[1].value = "slide" -> "slide"
         [] properties[1].value = "slice"
              /\ properties[2].value = "time" -> "slice-time"
         [] properties[1].value = "slice"
              /\ properties[2].value = "distance" -> "slice-distance"
         [] OTHER -> "none"

\* C24: the window node of every plan the compiler writes selects one of
\* the window modes slice by time, slice by distance, slide and session,
\* for `window slide ... advance every ...` queries too, and the engine
\* built on the plan comes up and runs one window worker variant.
C24_OneWindowMode ==
  /\ stdout # <<>> =>
       ConfiguredMode(stdout[1].properties)
         \in {"slice-time", "slice-distance", "slide", "session"}
  /\ pc = "engine" =>
       /\ alive
       /\ WindowMode \in {"Session", "LiveTime", "ReplayTime", "LiveDistance",
                          "ReplayDistance"}

\* C25: in every plan the compiler writes, the ingress, the ingress filter
\* and the window node have the field list of the `from` table: the same
\* names, types and usages in the same order.
C25_SchemaPropagates ==
  stdout # <<>> =>
    /\ stdout[1].ingress = Table
    /\ stdout[1].ingressFilter = Table
    /\ stdout[1].window = Table

\* A plan is written for a grouped query, with the table's fields, the
\* time field among them, in its window node.
C25_Witness ==
  /\ stdout # <<>>
  /\ query.groups # <<>>
  /\ \E i \in 1..Len(stdout[1].window) : stdout[1].window[i].usage = "time"

\* C26: in every plan the compiler writes, each of the eight nodes has the
\* same group fields: one per name of `group by`, in the declared order,
\* called by that name and of the type the catalog table gives it; none in
\* any node when the query has no `group by`.
C26_GroupFieldsEverywhere ==
  stdout # <<>> =>
    \A node \in Nodes :
      LET groupFields == stdout[1].groupFields[node]
      IN /\ Len(groupFields) = Len(query.groups)
         /\ \A g \in 1..Len(query.groups) :
              /\ groupFields[g].name = query.groups[g]
              /\ \E i \in Named(Table, query.groups[g]) :
                   groupFields[g].type = Table[i].type

\* C27: every aggregate function of the query language compiles.  The walk
\* over a query with n aggregations does not end in a panic, the aggregate
\* node of its plan has n calls, and the engine built on the plan has one
\* functor for each call.
C27_EveryAggregateCompiles ==
  query.window.kind # "slide" =>
    /\ pc # "panic"
    /\ stdout # <<>> => Len(stdout[1].calls) = Len(query.aggregations)
    /\ pc = "engine" => alive /\ Len(functors) = Len(query.aggregations)

\* How often the row `id` occurs among the rows an appender holds, the open
\* windows and the windows sent.
Occurrences(id) ==
  (IF id \in holding THEN 1 ELSE 0)
  + (IF id \in Range(window) THEN 1 ELSE 0)
  + Cardinality({ key \in DOMAIN wg : id \in Range(wg[key]) })
  + Cardinality({ i \in 1..Len(windowSent) : id \in Range(windowSent[i]) })

\* C28: in LiveTime mode no row is lost and no row is emitted twice,
\* however the appends interleave with the tick handler.  Whenever the tick
\* handler is at rest, every row the window worker has received is in
\* exactly one place: with an appender, in an open window, or in one window
\* that was sent.
C28_LiveTimeNoRowLost ==
  (WindowMode = "LiveTime" /\ tickPc = "select") =>
    \A id \in Range(windowReceived) : Occurrences(id) = 1

\* C30: every channel has at most one task that receives from it and one
\* that sends on it.  Run starts one goroutine per worker, so the one
\* channel that can get more is the ingress-filter-to-window channel, which
\* the appender goroutines of LiveTime mode receive from: at most one of
\* them exists, however many ticks have occurred.
C30_SingleConsumer ==
  appenders <= 1

\* C29: in LiveTime mode the window mutex is never held across a channel
\* operation.  The tick handler does not hold it where it waits for the
\* ticker or sends a window, so not while it is blocked on a full
\* window-to-aggregate channel either; an appender holds it only while it
\* has a row in hand that it has received and not yet appended.
C29_MutexNotHeldAcrossChannel ==
  /\ tickPc \in {"select", "send"} => windowMutex # Ticker
  /\ \A id \in Range(windowReceived) :
       windowMutex = Appender(id) => id \in holding
  /\ windowMutex \in { Unlocked, Ticker }
                     \cup { Appender(id) : id \in Range(windowReceived) }

\* The tick handler is blocked on the full window-to-aggregate channel and
\* an appender has locked the mutex.
C29_Witness ==
  /\ tickPc = "send"
  /\ Len(windowToAggregateChannel) = ChannelCapacity
  /\ \E id \in holding : windowMutex = Appender(id)
\* The tick handler is at a statement that reads or writes the state it
\* shares with the appenders: wg.AllGroupKeys(), wg.Close(key) and
\* window = Window{}, and without grouping the send, whose operand is the
\* shared window (with grouping the send has the local result of Close).
TickerAccesses ==
  \/ tickPc \in {"keys", "close", "reset"}
  \/ tickPc = "send" /\ ~Grouped

\* An appender is between its Lock and its Unlock, where it appends.
AppenderAccesses == \E id \in holding : windowMutex = Appender(id)

\* C31: in LiveTime mode every read and every write of the state shared by
\* the appenders and the tick handler (the window, or the window group) is
\* made with the window mutex held, so the tick handler and an appender
\* are never at such a statement at the same time.
C31_SharedStateUnderMutex ==
  /\ TickerAccesses => windowMutex = Ticker
  /\ ~(TickerAccesses /\ AppenderAccesses)
\* The length of one `unit` in milliseconds.
UnitMillis(unit) ==
  CASE unit = "milliseconds" -> 1
    [] unit = "seconds" -> 1000
    [] unit = "minutes" -> 60000

\* C32: for a slice window by time the engine's window width, the ticker
\* period of LiveTime and the bucket width of ReplayTime, is the interval
\* amount expressed in the interval unit of the query.
C32_WidthInUnit ==
  (pc = "engine" /\ alive) =>
    LET width == ParseAmount(query.window.amount)
                   * UnitMillis(query.window.unit)
    IN /\ plan.SequenceField = "" => intervalMillis = width
       /\ plan.SequenceField # "" => chunkDuration = width
\* The kind of an operand by the type rules: timestamp literals and time
\* fields are timestamps, `N unit` is a duration.
KindOf(operand) ==
  CASE operand.rule = "Duration" -> "Duration"
    [] operand.rule = "Timestamp" -> "Timestamp"
    [] operand.rule = "Variable" /\ operand.text = "t" -> "Timestamp"
    [] OTHER -> "other"

\* timestamp +- duration -> timestamp; timestamp - timestamp -> duration;
\* duration +- duration -> duration.  Other pairs have no rule.
TypeRule(op, left, right) ==
  CASE left = "Timestamp" /\ right = "Duration" -> "Timestamp"
    [] left = "Timestamp" /\ right = "Timestamp" /\ op = "-" -> "Duration"
    [] left = "Duration" /\ right = "Duration" -> "Duration"
    [] OTHER -> "none"

\* C33: the kind ExitAddSub gives an addition or subtraction of timestamps
\* and durations is the one of the type rules.
C33_AddSubKinds ==
  (pc = "done" /\ "term" \in DOMAIN query) =>
    LET rule == TypeRule(query.term.op, KindOf(query.term.left),
                         KindOf(query.term.right))
    IN rule # "none" => top(listener).Kind = rule
\* The truth of a comparison of the query for a row
Holds(c, row) ==
  CASE c.right.text = "5" -> row.x < 5
    [] c.right.text = "7" -> row.x < 7
    [] c.right.text = "\"a\"" -> row.g = "a"

\* The standard reading of a predicate: a disjunction of conjunctions of
\* comparisons and negations.
RECURSIVE Standard(_, _)
Standard(tokens, row) ==
  LET at(rule) == { i \in 1..Len(tokens) :
                      /\ tokens[i].rule = rule
                      /\ Depth(tokens, i, Token("LPAREN"), Token("RPAREN")) = 0 }
      any(S) == CHOOSE i \in S : TRUE
      before(i) == SubSeq(tokens, 1, i - 1)
      after(i) == SubSeq(tokens, i + 1, Len(tokens))
  IN IF at("OR") # {}
     THEN Standard(before(any(at("OR"))), row)
            \/ Standard(after(any(at("OR"))), row)
     ELSE IF at("AND") # {}
     THEN Standard(before(any(at("AND"))), row)
            /\ Standard(after(any(at("AND"))), row)
     ELSE IF tokens[1].rule = "NOT"
     THEN ~Standard(SubSeq(tokens, 3, Len(tokens) - 1), row)
     ELSE Holds(tokens[1], row)

\* C34: the condition compiled from a predicate of comparisons, `and`, `or`
\* and `not( )` has, for every row, the truth value of the predicate read
\* with `not` binding tighter than `and` and `and` tighter than `or`.
C34_StandardPrecedence ==
  (pc = "done" /\ "text" \in DOMAIN query) =>
    \A p \in Payloads :
      Pass(listener.IngressFilter, p) = Standard(query.text, p)

\* `x < 5 or g == "a" and x < 7` is compiled: its parse tree has `and` at
\* the root, and the row x = 3, g = "b" passes it only when `and` is
\* applied first.
C34_Witness ==
  /\ pc = "done"
  /\ "text" \in DOMAIN query
  /\ Len(query.text) = 5
  /\ query.text[2] = Token("OR")
  /\ query.text[4] = Token("AND")
  /\ query.text[1].right.text = "5"
  /\ query.text[5].right.text = "7"
  /\ Pass(listener.IngressFilter, [ x |-> 3, g |-> "b" ])
\* The reducer after Update with every value of a window
RECURSIVE Fed(_, _)
Fed(f, values) ==
  IF values = <<>> THEN f ELSE Fed(Update(f, Head(values)), Tail(values))

\* C35: reducer state does not leak between windows.  One reducer that is
\* reset before each non-empty window and updated with each of its rows
\* returns a value for the window, which is the value a freshly
\* initialised reducer of its kind returns for that window alone.
C35_NoLeakBetweenWindows ==
  /\ alive
  /\ \A k \in 1..Len(aggregateSent) :
       aggregateSent[k] =
         Value(Fed(Reset(Zero(functors.kind)), windowReceived[k]))
\* Two rows are in one window, sent or still open.
SameWindow(i, j) ==
  \E w \in Range(windowSent) \cup OpenWindows : {i, j} \subseteq Range(w)

\* The ReplayDistance bucket of a row: floor(F / N) for `slice N rows
\* based on F`.
RowBucket(id) == input[id][plan.SequenceField] \div plan.IntervalRows

\* C36: with `window slice N rows based on F` and input whose F does not
\* decrease, two rows of one group key are in the same window if and only
\* if floor(F / N) is the same for both, with and without `group by`.
C36_RowBuckets ==
  (WindowMode = "ReplayDistance" /\ InTimestampOrder) =>
    \A i, j \in Range(windowReceived) :
      GroupKey(i) = GroupKey(j) =>
        (SameWindow(i, j) <=> RowBucket(i) = RowBucket(j))
\* The clauses of queryClause in the order of the walk, and whether the
\* walk has left clause c.
ClauseOrder ==
  << "from", "group", "ingressWhere", "window", "aggregate",
     "aggregateWhere", "append", "projectWhere", "to", "query", "write",
     "done", "engine" >>

Left(c) ==
  \E i, j \in DOMAIN ClauseOrder :
    ClauseOrder[i] = c /\ ClauseOrder[j] = pc /\ i < j

\* The codes the predicate e of a stage compiles to, whatever the number
\* of literals compiled before it
CodesOf(stage, e) ==
  { Expression([ listener EXCEPT !.filterType = stage,
                                 !.VariableCounter = counter ], e).Code :
      counter \in 0..3 }

\* The filter stage of a `where` clause has the clause's condition once
\* the walk has left the clause, and no condition before that or when the
\* clause is absent.
StageCondition(slot, stage, condition, has) ==
  IF query[slot] # <<>> /\ Left(slot)
  THEN listener[has] /\ listener[condition] \in CodesOf(stage, query[slot][1])
  ELSE ~listener[has] /\ listener[condition] = ""

\* The eval function written for a stage: the one of the condition of its
\* `where`, or the one that passes everything.
StageFunction(slot, stage, condition) ==
  goFile[1].Functions[stage] =
    IF query[slot] # <<>> THEN GoEval(listener[condition])
    ELSE GoPassthroughEvalFunction

\* C37: for every combination of present and absent `where` clauses, with
\* a slice window or a session window between them, each `where` sets the
\* condition of the filter stage of its position and of no other stage,
\* and a stage without a `where` gets the predicate that passes everything.
C37_WhereSetsItsStage ==
  pc # "panic" =>
    /\ StageCondition("ingressWhere", "Ingress", "IngressFilter",
                      "hasIngressFilter")
    /\ StageCondition("aggregateWhere", "Aggregate", "AggregateFilter",
                      "hasAggregateFilter")
    /\ StageCondition("projectWhere", "Project", "ProjectFilter",
                      "hasProjectFilter")
    /\ goFile # <<>> =>
         /\ StageFunction("ingressWhere", "Ingress", "IngressFilter")
         /\ StageFunction("aggregateWhere", "Aggregate", "AggregateFilter")
         /\ StageFunction("projectWhere", "Project", "ProjectFilter")

\* A session query with a `where` before `window` and one after `append`,
\* and none after `aggregate`, is compiled.
C37_Witness ==
  /\ pc = "done"
  /\ query.sessionOpen # <<>>
  /\ query.ingressWhere # <<>>
  /\ query.aggregateWhere = <<>>
  /\ query.projectWhere # <<>>
  /\ goFile[1].Functions["Ingress"] = "pass = p.x < 5"
  /\ goFile[1].Functions["Aggregate"] = GoPassthroughEvalFunction
  /\ goFile[1].Functions["Project"] = "pass = p.n < \"a\""
\* C38: group keys are injective on group values.  Two rows that differ in
\* the value of a `group by` field never get the same key from
\* WindowGroup.GroupKey and are never in the same window.
C38_GroupKeyInjective ==
  \A i, j \in Range(windowReceived) :
    Group(input[i]) # Group(input[j]) =>
      GroupKey(i) # GroupKey(j) /\ ~SameWindow(i, j)
\* The windows sent to the aggregate stage that hold the row `id`.
WindowsWith(id) == { k \in DOMAIN windowSent : id \in Range(windowSent[k]) }

\* C39: in every window mode, every row that passed the ingress filter is
\* in at most one window sent to the aggregate stage; a session row that
\* matches both `end` and `begin` is not sent as the last row of the window
\* it closes and again as the first row of the window it opens.
C39_RowInOneWindow ==
  \A id \in Range(ingressFilterSent) : Cardinality(WindowsWith(id)) <= 1
\* How many of the first k windows sent to the aggregate stage hold a row.
NonEmptyUpTo(k) ==
  Cardinality({ i \in 1..k : i <= Len(windowSent) /\ windowSent[i] # <<>> })

\* The k-th window was sent and AggregateWorker has sent an aggregate row
\* for it and for every window with rows before it.
Aggregated(k) == k <= Len(windowSent) /\ Len(aggregateSent) >= NonEmptyUpTo(k)

\* C40: while the engine runs, AggregateWorker never stops consuming: every
\* window with rows that the window worker sends is eventually received
\* and turned into an aggregate row, whatever windows were sent before it.
C40_AggregateKeepsConsuming ==
  \A k \in 1..(MaxRows + MaxTicks) :
    (k <= Len(windowSent) /\ windowSent[k] # <<>>) ~> Aggregated(k)
====
